---- MODULE Spec2Model ----
(***************************************************************************)
(* CloudRun IDE: the execution pipeline.                                   *)
(*                                                                         *)
(* One engine task per submission (CodeExecutor.execute_code_stream, an    *)
(* async generator), its consumer (the /ws/execute endpoint or a direct    *)
(* caller), the active-execution registry, the container runtime as seen   *)
(* through DockerManager, the log reader job and its queue, and the        *)
(* externally invoked stop_execution.                                      *)
(*                                                                         *)
(* Steps of the engine are the pieces of code between two suspension       *)
(* points (a yield or an awaited thread-pool call); everything between two *)
(* suspension points runs atomically on the event loop.                    *)
(*                                                                         *)
(* Environment assumption: the container runtime itself does not fail on a *)
(* container that exists (stop and remove of an existing container         *)
(* succeed); calls on a container that was already removed fail.           *)
(***************************************************************************)
EXTENDS Integers, Sequences, FiniteSets, TLC

(***************************************************************************)
(* Bounds of the model                                                     *)
(***************************************************************************)
\* chunks a user program / an install command may print in one execution
MaxLines == 1
\* seconds the clock advances in one Tick
TickStep == 60

(***************************************************************************)
(* Program constants                                                       *)
(***************************************************************************)
MAX_EXECUTION_TIME == 60
MAX_CODE_LEN == 1000000
\* exit status of a container killed by stop (SIGKILL after the grace time)
SIGKILL_STATUS == 128 + 9

\* execution ids (generate_execution_id yields process-unique tokens)
Execs == {"exec_a", "exec_b"}

DOCKER_IMAGES == {"python", "nodejs", "java", "cpp", "ubuntu"}
NO_DOCKER_LANGUAGES == {"html"}
INSTALL_COMMANDS_MAP == {"python", "nodejs"}
\* language tags a caller may pass: the enumeration plus one unknown tag
Langs == DOCKER_IMAGES \cup NO_DOCKER_LANGUAGES \cup {"cobol"}

(***************************************************************************)
(* Source code of a submission, by the features validate_code looks at.    *)
(***************************************************************************)
\* text: the string itself (by name); len: what len(code) returns, the number
\* of characters; bytes: its size in UTF-8, as written to the workspace file
Code(text, len, bytes, blank, public_class, class_token) ==
    [text |-> text, len |-> len, bytes |-> bytes, blank |-> blank,
     public_class |-> public_class, class_token |-> class_token]
CodeEmpty == Code("", 0, 0, TRUE, FALSE, FALSE)
CodeBlank == Code("   ", 3, 3, TRUE, FALSE, FALSE)
CodePlain == Code("print('hello')", 14, 14, FALSE, FALSE, FALSE)
CodePublicClass == Code("public class Main {}", 20, 20, FALSE, TRUE, TRUE)
CodeTooLarge == Code("x = '...'", MAX_CODE_LEN + 1, MAX_CODE_LEN + 1, FALSE, FALSE, FALSE)
Codes == {CodeEmpty, CodeBlank, CodePlain, CodePublicClass, CodeTooLarge}

\* install_packages: None or a list of package names
NoPackages == << >>
CleanPackages == <<"numpy">>
UnsafePackages == <<"lodash; wget evil.sh">>
Packages == {NoPackages, CleanPackages, UnsafePackages}

\* the submissions of the model: every language with every code, except that
\* only Java submissions carry the code with a public class; the engine
\* never looks into a package name, so one package list per language is
\* enough: the unsafe one for nodejs, the clean one for the others
Submissions ==
    {a \in [language : Langs, code : Codes, install_packages : Packages] :
        /\ a.code.public_class => a.language = "java"
        /\ a.install_packages = UnsafePackages => a.language = "nodejs"
        /\ a.install_packages = CleanPackages => a.language # "nodejs"}

NoArgs == [language |-> "", code |-> CodeEmpty, install_packages |-> NoPackages]

(***************************************************************************)
(* Output chunks                                                           *)
(***************************************************************************)
TEXT == "hello"
PY_MISSING == "ModuleNotFoundError: No module named 'numpy'"
JS_MISSING == "Error: Cannot find module 'lodash'"
BLANK_LINE == ""
INSTALL_OK == "Installation complete!"
RUNNING_MARK == ">>> RUNNING CODE >>>"
FAILED_MARK == "INSTALL FAILED - check package name and try again"
\* the terminal sentinel the reader job puts into the queue
EOF == "<None>"
\* what an install command can print
InstallChunks == {TEXT}
\* what a program can print: any text, also the text of a marker line; the
\* missing-module message is the one of the language's own runtime
ProgChunks(language) ==
    {TEXT, RUNNING_MARK} \cup (IF language = "python" THEN {PY_MISSING} ELSE {})
           \cup (IF language = "nodejs" THEN {JS_MISSING} ELSE {})
ExitCodes == {0, 1}

(***************************************************************************)
(* Events                                                                  *)
(***************************************************************************)
Event(t, c, n, p) == [type |-> t, content |-> c, n |-> n, pkg |-> p]
Ev(t, c) == Event(t, c, 0, << >>)

\* a validation that asks Java code for the letters "class" only
validate_code_ClassToken(code, language) ==
    IF code.len = 0 \/ code.blank THEN <<FALSE, "Code cannot be empty">>
    ELSE IF code.len > MAX_CODE_LEN THEN <<FALSE, "Code is too large (max 1MB)">>
    ELSE IF language = "java" /\ ~code.class_token
         THEN <<FALSE, "Java code must contain a public class">>
    ELSE <<TRUE, "">>

\* helpers.validate_code: <<is_valid, error_msg>>
validate_code(code, language) ==
    IF code.len = 0 \/ code.blank THEN <<FALSE, "Code cannot be empty">>
    ELSE IF code.len > MAX_CODE_LEN THEN <<FALSE, "Code is too large (max 1MB)">>
    ELSE IF language = "java" /\ ~code.public_class
         THEN <<FALSE, "Java code must contain a public class">>
    ELSE <<TRUE, "">>

\* needs_install decided by the package list alone
NeedsInstall_AnyLanguage(a) == a.install_packages # NoPackages

\* needs_install = bool(install_packages and language in INSTALL_COMMANDS_MAP)
NeedsInstall(a) == a.install_packages # NoPackages /\ a.language \in INSTALL_COMMANDS_MAP

\* the deadline without the factor of the install path
DrainTimeout_NoInstallFactor(a) == MAX_EXECUTION_TIME

\* timeout = settings.MAX_EXECUTION_TIME * (2 if needs_install else 1)
DrainTimeout(a) == MAX_EXECUTION_TIME * (IF NeedsInstall(a) THEN 2 ELSE 1)

(***************************************************************************)
(* Dependency detector                                                     *)
(***************************************************************************)
\* DEPENDENCY_PATTERNS: language -> sequence of <<manager, pattern>>
DEPENDENCY_PATTERNS(language) ==
    IF language = "python"
    THEN << <<"pip", "py_module_not_found">>, <<"pip", "py_import_error">> >>
    ELSE IF language = "nodejs"
    THEN << <<"npm", "js_cannot_find">>, <<"npm", "js_error_cannot_find">>,
            <<"npm", "js_err_module_not_found">> >>
    ELSE << >>

\* the package a pattern captures in one chunk, "" when it does not match
Capture(pattern, chunk) ==
    IF pattern = "py_module_not_found" /\ chunk = PY_MISSING THEN "numpy"
    ELSE IF pattern \in {"js_cannot_find", "js_error_cannot_find"} /\ chunk = JS_MISSING
    THEN "lodash"
    ELSE ""

\* re.search(pattern, ''.join(output_lines)): capture of the first match
RECURSIVE Search(_, _)
Search(pattern, lines) ==
    IF lines = << >> THEN ""
    ELSE IF Capture(pattern, Head(lines)) # "" THEN Capture(pattern, Head(lines))
    ELSE Search(pattern, Tail(lines))

RECURSIVE DetectFrom(_, _)
DetectFrom(pats, lines) ==
    IF pats = << >> THEN <<"", "">>
    ELSE IF Search(Head(pats)[2], lines) # ""
         THEN <<Head(pats)[1], Search(Head(pats)[2], lines)>>
         ELSE DetectFrom(Tail(pats), lines)

\* DependencyDetector.detect_missing_dependency: <<manager, package>>,
\* <<"", "">> for None
detect_missing_dependency(lines, language) ==
    DetectFrom(DEPENDENCY_PATTERNS(language), lines)

(***************************************************************************)
(* State                                                                   *)
(***************************************************************************)
VARIABLES
    served,             \* the ids of the submissions this run of the process serves
    frame,              \* the request frame the endpoint received, per execution
    args,               \* arguments of execute_code_stream, per execution
    via,                \* who consumes the stream: "none", "ws", "direct"
    pc,                 \* position of the engine generator
    events,             \* events the engine has yielded, in order
    sent,               \* frames the consumer has delivered to the client
    client,             \* "idle", "open", "lost", "closed"
    active_executions,  \* the registry: ids whose container handle is stored
    container,          \* the engine's local `container` is not None
    cstate,             \* runtime: "none","created","running","exited","removed"
    temp_dir,           \* "none", "exists", "deleted"
    output_lines,       \* engine local
    timed_out,          \* engine local
    exit_code,          \* engine local
    eof_seen,           \* the drain loop ended on the EOF sentinel
    stream,             \* chunks the container wrote and the reader has not read
    queue,              \* asyncio.Queue of _stream_logs_async
    reader,             \* the _read_logs job: "none", "reading", "done"
    elapsed,            \* seconds since start_time of the drain
    cphase,             \* what the container's command is doing
    pending,            \* echo lines the composed script is about to print
    printed,            \* chunks printed so far by install command and program
    exit_status,        \* exit status of the container's command
    install_status,     \* exit status of the install command, -1 before it ends
    network,            \* networking of the created container: "none" (no
                        \* container), "enabled", "disabled"
    logs,               \* chunks the log iterator has yielded to the reader job
    call,               \* a call of a pure helper: its name and arguments
    result,             \* what the call returned, << >> before it returns
    stop_result,        \* last stop_execution call: <<id, returned>>
    stop_true,          \* per id, how often stop_execution returned True
    cancel_drain,       \* per id, stop_execution found it in the registry while
                        \* its engine was draining
    create_outcome,     \* per id, what happened in its create_container call
    host,               \* the process and the containers of the Docker host
    run,                \* executions seen from the worker pool, per run id
    pool                \* workers held by further executions, and the last stop call

vars == <<served, frame, args, via, pc, events, sent, client, active_executions, container,
          cstate, temp_dir, output_lines, timed_out, exit_code, eof_seen,
          stream, queue, reader, elapsed, cphase, pending, printed,
          exit_status, install_status, network, logs, call, result,
          stop_result, stop_true, cancel_drain, create_outcome, host, run, pool>>

engineVars == <<served, frame, args, via, pc, events, sent, client, container, temp_dir,
                output_lines, timed_out, exit_code, eof_seen>>
runtimeVars == <<cstate, stream, cphase, pending, printed, exit_status, install_status,
                 network, create_outcome>>
bridgeVars == <<queue, reader, elapsed, logs>>
pureVars == <<call, result>>
stopVars == <<stop_result, stop_true, cancel_drain>>

\* The first frame of /ws/execute.  kind "object": a JSON object whose
\* language and code are strings (language "" also stands for an absent
\* language, the empty code for an empty string); "no_code": an object
\* without code; "malformed": not JSON, or not an object.
Frame(kind, language, code, install) ==
    [kind |-> kind, language |-> language, code |-> code, install_packages |-> install]
NoFrame == Frame("none", "", CodeEmpty, NoPackages)
Frames ==
    {f \in [kind : {"object"}, language : Langs \cup {""}, code : Codes,
            install_packages : Packages] :
        f.language # "" =>
            [language |-> f.language, code |-> f.code,
             install_packages |-> f.install_packages] \in Submissions}
    \cup {Frame("no_code", "python", CodeEmpty, NoPackages),
          Frame("malformed", "", CodeEmpty, NoPackages)}

\* Container names as sequences of their parts.
\* helpers.generate_container_name: f"cloudrun_{language}_{execution_id}"
generate_container_name(execution_id, language) ==
    <<"cloudrun_", language, "_", execution_id>>
\* containers on the host that are not of this program
ForeignContainers == {<<"postgres">>, <<"my_", "cloudrun_", "db">>}

\* The process serves, no execution has been launched, and the host has
\* the containers of other programs only.
HostInit ==
    [lifecycle |-> "serving", containers |-> ForeignContainers, owned |-> {},
     launched |-> 0]

\* Executions followed step by step next to the worker pool; the reader jobs
\* of any further executions are counted in pool.readers
Runs == {"run_1", "run_2"}
\* the ids a stop request can name
StopIds == Runs \cup {"run_unknown"}
\* pc: where the engine of the run is; install: it is on the install path;
\* reader: its _read_logs job, "none", "queued" in the pool, "reading" on a
\* worker, "done"; container: "none", "created", "running", "exited" by
\* itself, "stopped" at the deadline, "removed"; elapsed: seconds since the
\* start of its drain
NoRun ==
    [pc |-> "idle", install |-> FALSE, reader |-> "none", container |-> "none",
     elapsed |-> 0, timed_out |-> FALSE, eof |-> FALSE]

\* no helper is called on its own
NoCall == [fn |-> "none"]

\* ids of Execs outside Served are never handed out by generate_execution_id
Served == {"exec_a"}

InitState ==
    /\ served = Served
    /\ frame = [e \in Execs |-> NoFrame]
    /\ args = [e \in Execs |-> NoArgs]
    /\ via = [e \in Execs |-> "none"]
    /\ pc = [e \in Execs |-> "idle"]
    /\ events = [e \in Execs |-> << >>]
    /\ sent = [e \in Execs |-> << >>]
    /\ client = [e \in Execs |-> "idle"]
    /\ active_executions = {}
    /\ container = [e \in Execs |-> FALSE]
    /\ cstate = [e \in Execs |-> "none"]
    /\ temp_dir = [e \in Execs |-> "none"]
    /\ output_lines = [e \in Execs |-> << >>]
    /\ timed_out = [e \in Execs |-> FALSE]
    /\ exit_code = [e \in Execs |-> 0]
    /\ eof_seen = [e \in Execs |-> FALSE]
    /\ stream = [e \in Execs |-> << >>]
    /\ queue = [e \in Execs |-> << >>]
    /\ reader = [e \in Execs |-> "none"]
    /\ elapsed = [e \in Execs |-> 0]
    /\ cphase = [e \in Execs |-> "none"]
    /\ pending = [e \in Execs |-> << >>]
    /\ printed = [e \in Execs |-> 0]
    /\ exit_status = [e \in Execs |-> 0]
    /\ install_status = [e \in Execs |-> -1]
    /\ network = [e \in Execs |-> "none"]
    /\ logs = [e \in Execs |-> << >>]
    /\ stop_result = <<"", FALSE>>
    /\ stop_true = [e \in Execs |-> 0]
    /\ cancel_drain = [e \in Execs |-> FALSE]
    /\ create_outcome = [e \in Execs |-> "not_called"]
    /\ host = HostInit
    /\ run = [x \in Runs |-> NoRun]
    /\ pool = [readers |-> 0, stopped |-> << >>]

Init == InitState /\ call = NoCall /\ result = << >>

(***************************************************************************)
(* Container runtime, as DockerManager drives it                           *)
(***************************************************************************)
Rt(e) == [cstate |-> cstate[e], stream |-> stream[e], cphase |-> cphase[e],
          pending |-> pending[e], exit_status |-> exit_status[e],
          install_status |-> install_status[e]]

SetRt(e, rt) ==
    /\ cstate' = [cstate EXCEPT ![e] = rt.cstate]
    /\ stream' = [stream EXCEPT ![e] = rt.stream]
    /\ cphase' = [cphase EXCEPT ![e] = rt.cphase]
    /\ pending' = [pending EXCEPT ![e] = rt.pending]
    /\ exit_status' = [exit_status EXCEPT ![e] = rt.exit_status]
    /\ install_status' = [install_status EXCEPT ![e] = rt.install_status]
    /\ printed' = printed
    /\ network' = network
    /\ create_outcome' = create_outcome

\* DockerManager.stop_container: a running container is killed; on any
\* other container the call changes nothing (errors are swallowed)
stop_container(rt) ==
    IF rt.cstate = "running"
    THEN [rt EXCEPT !.cstate = "exited", !.cphase = "exited", !.pending = << >>,
                    !.exit_status = SIGKILL_STATUS]
    ELSE rt

\* DockerManager.remove_container (force=True): the container and its
\* unread log stream are gone; on a removed container the call fails and
\* the error is swallowed
remove_container(rt) ==
    IF rt.cstate \in {"created", "running", "exited"}
    THEN [rt EXCEPT !.cstate = "removed", !.cphase = "exited", !.pending = << >>,
                    !.stream = << >>,
                    !.exit_status = IF rt.cstate = "running" THEN SIGKILL_STATUS
                                    ELSE rt.exit_status]
    ELSE rt

\* cleanup that stops the container and forgets to remove it
cleanup_container_StopOnly(rt) == stop_container(rt)

\* DockerManager.cleanup_container
cleanup_container(rt) == remove_container(stop_container(rt))

\* the bool the three calls return: container.stop and container.remove
\* raise on a container that is gone, and `except Exception` turns that into
\* False; stopping a container that is not running is no error
stop_container_returns(rt) == rt.cstate \in {"created", "running", "exited"}
remove_container_returns(rt) == rt.cstate \in {"created", "running", "exited"}
cleanup_container_returns(rt) == remove_container_returns(stop_container(rt))

\* DockerManager.wait_container(container, timeout=2): StatusCode
wait_container(rt) == IF rt.cstate = "exited" THEN rt.exit_status ELSE -1

(***************************************************************************)
(* The command running in the container.  On the install path it is the    *)
(* script of _prepare_install_and_run_command:                             *)
(*   (install) && echo "" && echo OK && echo RUNNING && echo "" && run     *)
(*     || (echo "" && echo FAILED)                                         *)
(***************************************************************************)
ContainerPrint(e) ==
    /\ cstate[e] = "running"
    /\ \/ /\ pending[e] # << >>
          /\ stream' = [stream EXCEPT ![e] = Append(@, Head(pending[e]))]
          /\ pending' = [pending EXCEPT ![e] = Tail(@)]
          /\ printed' = printed
       \/ /\ pending[e] = << >>
          /\ cphase[e] \in {"install", "run"}
          /\ printed[e] < MaxLines
          /\ \E c \in (IF cphase[e] = "install" THEN InstallChunks
                        ELSE ProgChunks(args[e].language)) :
                stream' = [stream EXCEPT ![e] = Append(@, c)]
          /\ printed' = [printed EXCEPT ![e] = @ + 1]
          /\ pending' = pending
    /\ UNCHANGED <<cstate, cphase, exit_status, install_status, network, create_outcome>>
    /\ UNCHANGED <<engineVars, active_executions, bridgeVars, stopVars, pureVars, host, run, pool>>

\* the status of the script when its and-list has failed: the or-branch
\* prints the FAILED lines and the script ends with the status of echo
ScriptOrBranch(rt) ==
    [rt EXCEPT !.cphase = "or_branch", !.pending = <<BLANK_LINE, FAILED_MARK>>]

ScriptStep(rt, install_path, code) ==
    IF rt.cphase = "install"
    THEN IF code = 0
         THEN [rt EXCEPT !.cphase = "run", !.install_status = code,
                         !.pending = <<BLANK_LINE, INSTALL_OK, RUNNING_MARK, BLANK_LINE>>]
         ELSE ScriptOrBranch([rt EXCEPT !.install_status = code])
    ELSE IF rt.cphase = "run" /\ install_path /\ code # 0
    THEN ScriptOrBranch(rt)
    ELSE IF rt.cphase = "or_branch"
    THEN [rt EXCEPT !.cstate = "exited", !.cphase = "exited", !.exit_status = 0]
    ELSE [rt EXCEPT !.cstate = "exited", !.cphase = "exited", !.exit_status = code]

\* a command of the script (the install, the program, the or-branch) ends
ContainerStep(e) ==
    /\ cstate[e] = "running"
    /\ pending[e] = << >>
    /\ \E code \in ExitCodes :
          /\ cphase[e] = "or_branch" => code = 0
          /\ SetRt(e, ScriptStep(Rt(e), NeedsInstall(args[e]), code))
    /\ UNCHANGED <<engineVars, active_executions, bridgeVars, stopVars, pureVars, host, run, pool>>

(***************************************************************************)
(* The reader job of _stream_logs_async                                    *)
(***************************************************************************)
\* a reader job that puts each chunk at the front of the queue
ReaderRead_PutsFirst(e) ==
    /\ reader[e] = "reading"
    /\ stream[e] # << >>
    /\ queue' = [queue EXCEPT ![e] = <<Head(stream[e])>> \o @]
    /\ stream' = [stream EXCEPT ![e] = Tail(@)]
    /\ logs' = [logs EXCEPT ![e] = Append(@, Head(stream[e]))]
    /\ UNCHANGED <<cstate, cphase, pending, printed, exit_status, install_status, network, create_outcome>>
    /\ UNCHANGED <<engineVars, active_executions, reader, elapsed, stopVars, pureVars, host, run, pool>>

\* _read_logs: one chunk of the log iterator goes into the queue
ReaderRead(e) ==
    /\ reader[e] = "reading"
    /\ stream[e] # << >>
    /\ queue' = [queue EXCEPT ![e] = Append(@, Head(stream[e]))]
    /\ stream' = [stream EXCEPT ![e] = Tail(@)]
    /\ logs' = [logs EXCEPT ![e] = Append(@, Head(stream[e]))]
    /\ UNCHANGED <<cstate, cphase, pending, printed, exit_status, install_status, network, create_outcome>>
    /\ UNCHANGED <<engineVars, active_executions, reader, elapsed, stopVars, pureVars, host, run, pool>>

\* a log iterator that ends only when the container exits by itself
ReaderEof_OnlyOnExit(e) ==
    /\ reader[e] = "reading"
    /\ stream[e] = << >>
    /\ cstate[e] = "exited"
    /\ queue' = [queue EXCEPT ![e] = Append(@, EOF)]
    /\ reader' = [reader EXCEPT ![e] = "done"]
    /\ UNCHANGED <<engineVars, active_executions, runtimeVars, elapsed, logs, stopVars, pureVars, host, run, pool>>

\* the log iterator ends (container exited) or raises (container removed)
ReaderEof(e) ==
    /\ reader[e] = "reading"
    /\ stream[e] = << >>
    /\ cstate[e] \in {"exited", "removed"}
    /\ queue' = [queue EXCEPT ![e] = Append(@, EOF)]
    /\ reader' = [reader EXCEPT ![e] = "done"]
    /\ UNCHANGED <<engineVars, active_executions, runtimeVars, elapsed, logs, stopVars, pureVars, host, run, pool>>

\* the deadline counted as reached only once it is passed
DeadlineReached_Strict(el, timeout) == timeout - el < 0

\* _stream_logs_async lines 344-347: remaining = timeout - elapsed;
\* if remaining <= 0
DeadlineReached(el, timeout) == timeout - el <= 0

Tick(e) ==
    /\ pc[e] = "drain"
    /\ ~DeadlineReached(elapsed[e], DrainTimeout(args[e]))
    /\ elapsed' = [elapsed EXCEPT ![e] = @ + TickStep]
    /\ UNCHANGED <<engineVars, active_executions, runtimeVars, queue, reader, logs, stopVars, pureVars, host, run, pool>>

(***************************************************************************)
(* The consumer of the event stream                                        *)
(***************************************************************************)
\* The engine yields ev.  Either the consumer delivers it (send_json
\* returns) and asks for the next event, so the engine will resume at
\* `next`, or the send fails (peer lost): websocket_execute_endpoint leaves
\* its loop through an except clause whose `if execution_id:` never holds
\* (execution_id is assigned None and nothing else), so nothing is stopped
\* and the generator stays suspended at the yield.
Yield(e, ev, next, ok) ==
    /\ events' = [events EXCEPT ![e] = Append(@, ev)]
    /\ IF ok
       THEN /\ sent' = [sent EXCEPT ![e] = Append(@, ev)]
            /\ pc' = [pc EXCEPT ![e] = next]
            /\ client' = client
       ELSE /\ sent' = sent
            /\ pc' = [pc EXCEPT ![e] = "abandoned"]
            /\ client' = [client EXCEPT ![e] = "lost"]

\* the engine moves on without yielding
Goto(e, next) ==
    /\ pc' = [pc EXCEPT ![e] = next]
    /\ UNCHANGED <<events, sent, client>>

\* the generator is exhausted: the endpoint closes the transport
Finish(e) ==
    /\ pc' = [pc EXCEPT ![e] = "done"]
    /\ client' = [client EXCEPT ![e] = IF @ = "open" THEN "closed" ELSE @]
    /\ UNCHANGED <<events, sent>>

\* except Exception as e: yield error("Execution error: ...")
Raise(e, ok) == Yield(e, Ev("error", "Execution error"), "finally", ok)

\* lines 38-47: receive_json, data.get(...) and len(code) raise
FrameRaises(f) == f.kind # "object"

\* the check of the required fields without the code
FrameMissingFields_OnlyLanguage(f) == f.language = ""

\* line 49: if not language or not code
FrameMissingFields(f) == f.language = "" \/ f.code.len = 0

\* websocket_execute_endpoint up to the call of the engine: the frame's
\* install_packages is not read
WsReceive(e) ==
    /\ e \in served
    /\ pc[e] = "idle" /\ client[e] = "idle"
    /\ \E f \in Frames :
          /\ frame' = [frame EXCEPT ![e] = f]
          /\ IF FrameRaises(f)
             THEN /\ sent' = [sent EXCEPT ![e] = <<Ev("error", "Execution error")>>]
                  /\ client' = [client EXCEPT ![e] = "closed"]
                  /\ UNCHANGED <<args, via, pc>>
             ELSE IF FrameMissingFields(f)
             THEN /\ sent' = [sent EXCEPT ![e] =
                         <<Ev("error", "Missing required fields: language and code")>>]
                  /\ client' = [client EXCEPT ![e] = "closed"]
                  /\ UNCHANGED <<args, via, pc>>
             ELSE /\ args' = [args EXCEPT ![e] = [language |-> f.language, code |-> f.code,
                                                  install_packages |-> NoPackages]]
                  /\ via' = [via EXCEPT ![e] = "ws"]
                  /\ pc' = [pc EXCEPT ![e] = "entry"]
                  /\ client' = [client EXCEPT ![e] = "open"]
                  /\ sent' = sent
    /\ UNCHANGED <<served, events, container, temp_dir, output_lines, timed_out,
                   exit_code, eof_seen>>
    /\ UNCHANGED <<active_executions, runtimeVars, bridgeVars, stopVars, pureVars, host, run, pool>>

\* execute_code_stream called by any other consumer, with any arguments
Invoke(e) ==
    /\ e \in served
    /\ pc[e] = "idle" /\ client[e] = "idle"
    /\ \E a \in Submissions : args' = [args EXCEPT ![e] = a]
    /\ via' = [via EXCEPT ![e] = "direct"]
    /\ pc' = [pc EXCEPT ![e] = "entry"]
    /\ client' = [client EXCEPT ![e] = "open"]
    /\ UNCHANGED <<served, frame, events, sent, container, temp_dir, output_lines, timed_out,
                   exit_code, eof_seen>>
    /\ UNCHANGED <<active_executions, runtimeVars, bridgeVars, stopVars, pureVars, host, run, pool>>

(***************************************************************************)
(* CodeExecutor.execute_code_stream                                        *)
(***************************************************************************)
\* the engine without the `return` after the validation error
Entry_ContinuesAfterInvalid(e, ok) ==
    /\ pc[e] = "entry"
    /\ IF args[e].language \in NO_DOCKER_LANGUAGES
       THEN Yield(e, Ev("status", "Rendering HTML preview..."), "html_preview", ok)
       ELSE IF ~validate_code(args[e].code, args[e].language)[1]
       THEN Yield(e, Ev("error", validate_code(args[e].code, args[e].language)[2]),
                  "prepare", ok)
       ELSE IF NeedsInstall(args[e])
       THEN Yield(e, Event("install_start", "Installing", 0, args[e].install_packages),
                  "prepare", ok)
       ELSE Yield(e, Ev("status", "Starting execution..."), "prepare", ok)
    /\ UNCHANGED <<served, frame, args, via, container, temp_dir, output_lines, timed_out,
                   exit_code, eof_seen>>
    /\ UNCHANGED <<active_executions, runtimeVars, bridgeVars, stopVars, pureVars, host, run, pool>>

\* lines 59-96: html short-circuit, validation, prelude event
Entry(e, ok) ==
    /\ pc[e] = "entry"
    /\ IF args[e].language \in NO_DOCKER_LANGUAGES
       THEN Yield(e, Ev("status", "Rendering HTML preview..."), "html_preview", ok)
       ELSE IF ~validate_code(args[e].code, args[e].language)[1]
       THEN Yield(e, Ev("error", validate_code(args[e].code, args[e].language)[2]),
                  "return", ok)
       ELSE IF NeedsInstall(args[e])
       THEN Yield(e, Event("install_start", "Installing", 0, args[e].install_packages),
                  "prepare", ok)
       ELSE Yield(e, Ev("status", "Starting execution..."), "prepare", ok)
    /\ UNCHANGED <<served, frame, args, via, container, temp_dir, output_lines, timed_out,
                   exit_code, eof_seen>>
    /\ UNCHANGED <<active_executions, runtimeVars, bridgeVars, stopVars, pureVars, host, run, pool>>

\* the preview event without the submitted code
HtmlPreview_WrongContent(e, ok) ==
    /\ pc[e] = "html_preview"
    /\ Yield(e, Ev("html_preview", ""), "html_complete", ok)
    /\ UNCHANGED <<served, frame, args, via, container, temp_dir, output_lines, timed_out,
                   exit_code, eof_seen>>
    /\ UNCHANGED <<active_executions, runtimeVars, bridgeVars, stopVars, pureVars, host, run, pool>>

\* _handle_html_preview, second and third yield
HtmlPreview(e, ok) ==
    /\ pc[e] = "html_preview"
    /\ Yield(e, Ev("html_preview", args[e].code.text), "html_complete", ok)
    /\ UNCHANGED <<served, frame, args, via, container, temp_dir, output_lines, timed_out,
                   exit_code, eof_seen>>
    /\ UNCHANGED <<active_executions, runtimeVars, bridgeVars, stopVars, pureVars, host, run, pool>>

HtmlComplete(e, ok) ==
    /\ pc[e] = "html_complete"
    /\ Yield(e, Ev("complete", "HTML rendered successfully"), "return", ok)
    /\ UNCHANGED <<served, frame, args, via, container, temp_dir, output_lines, timed_out,
                   exit_code, eof_seen>>
    /\ UNCHANGED <<active_executions, runtimeVars, bridgeVars, stopVars, pureVars, host, run, pool>>

\* a return outside the try statement
Return(e) ==
    /\ pc[e] = "return"
    /\ Finish(e)
    /\ UNCHANGED <<served, frame, args, via, container, temp_dir, output_lines, timed_out,
                   exit_code, eof_seen>>
    /\ UNCHANGED <<active_executions, runtimeVars, bridgeVars, stopVars, pureVars, host, run, pool>>

\* An exception leaves the generator: the endpoint's `except Exception`
\* sends an error frame of its own and returns, any other consumer gets the
\* exception.
Escape(e) ==
    /\ pc' = [pc EXCEPT ![e] = "raised"]
    /\ sent' = [sent EXCEPT ![e] = IF via[e] = "ws" /\ client[e] = "open"
                                    THEN Append(@, Ev("error", "Execution error"))
                                    ELSE @]
    /\ client' = [client EXCEPT ![e] = IF via[e] = "ws" THEN "closed" ELSE "failed"]
    /\ events' = events

\* lines 98-128: tempfile.TemporaryDirectory() before the try statement,
\* which raises when no directory can be made; then inside the try the files
\* and the command; writing a file may raise
Prepare(e, ok) ==
    /\ pc[e] = "prepare"
    /\ \E r \in {"no_temp_dir", "write_raises", "ok"} :
          IF r = "no_temp_dir"
          THEN ok /\ Escape(e) /\ temp_dir' = temp_dir
          ELSE /\ temp_dir' = [temp_dir EXCEPT ![e] = "exists"]
               /\ IF r = "write_raises" THEN Raise(e, ok) ELSE ok /\ Goto(e, "create")
    /\ UNCHANGED <<served, frame, args, via, container, output_lines, timed_out, exit_code,
                   eof_seen>>
    /\ UNCHANGED <<active_executions, runtimeVars, bridgeVars, stopVars, pureVars, host, run, pool>>

\* line 139: enable_network=needs_install
CreateNetworkArg_Never(a) == FALSE

CreateNetworkArg(a) == NeedsInstall(a)

\* The create_container that the engine calls (through get_docker_manager(),
\* with enable_network) is not among the sources, which hold a variant
\* without that parameter; its network decision is taken from the
\* specification of the sandbox driver: disabled unless network_enabled is
\* true or the language is ubuntu.
NetworkEnabled(language, enable_network) == enable_network \/ language = "ubuntu"

\* What can happen inside create_container: the image is there (or pulled)
\* and the container is created; images.get fails with an APIError that is
\* not ImageNotFound; images.pull fails with an APIError; containers.create
\* fails with an APIError; containers.create raises something else.
CreateCauses == {"created", "image_check_failed", "pull_failed", "create_failed", "raise"}

\* DockerManager.pull_image: False for a language without an image and for
\* an APIError of images.pull; `except ImageNotFound` is the only handler
\* around images.get, so any other error of the image check leaves the call
pull_image(language, cause) ==
    IF language \notin DOCKER_IMAGES THEN "false"
    ELSE IF cause = "image_check_failed" THEN "raise"
    ELSE IF cause = "pull_failed" THEN "false"
    ELSE "true"

\* DockerManager.create_container: None when pull_image returns False and
\* when containers.create fails with an APIError; any other exception
\* leaves the call
create_container(language, cause) ==
    LET image == pull_image(language, cause) IN
    IF image = "raise" THEN "raise"
    ELSE IF image = "false" THEN "none"
    ELSE IF cause = "create_failed" THEN "none"
    ELSE IF cause = "raise" THEN "raise"
    ELSE "container"

\* what happened in the one create_container call of an execution
CreateOutcome(language, cause) ==
    IF language \notin DOCKER_IMAGES THEN "unsupported" ELSE cause

\* lines 143-151: the id is inserted after `if not container: ... return`
RegistryAfterCreate(e, r) ==
    IF r = "container" THEN active_executions \cup {e} ELSE active_executions

\* lines 130-151: create_container returns a container or None, or raises
Create(e, ok) ==
    /\ pc[e] = "create"
    /\ \E cause \in CreateCauses :
       LET r == create_container(args[e].language, cause) IN
          /\ active_executions' = RegistryAfterCreate(e, r)
          /\ create_outcome' = [create_outcome EXCEPT ![e] =
                                    CreateOutcome(args[e].language, cause)]
          /\ IF r = "container"
             THEN /\ ok
                  /\ cstate' = [cstate EXCEPT ![e] = "created"]
                  /\ network' = [network EXCEPT ![e] =
                         IF NetworkEnabled(args[e].language, CreateNetworkArg(args[e]))
                         THEN "enabled" ELSE "disabled"]
                  /\ container' = [container EXCEPT ![e] = TRUE]
                  /\ Goto(e, "copy")
             ELSE /\ IF r = "none"
                     THEN Yield(e, Ev("error", "Failed to create Docker container. Is Docker running?"),
                                "finally", ok)
                     ELSE Raise(e, ok)
                  /\ UNCHANGED <<cstate, network, container>>
    /\ UNCHANGED <<served, frame, args, via, temp_dir, output_lines, timed_out, exit_code,
                   eof_seen>>
    /\ UNCHANGED <<stream, cphase, pending, printed, exit_status, install_status,
                   bridgeVars, stopVars, pureVars, host, run, pool>>

\* lines 153-154: _copy_files_to_container; put_archive raises on a
\* container that is gone, and may raise otherwise
Copy(e, ok) ==
    /\ pc[e] = "copy"
    /\ \E raises \in BOOLEAN :
          /\ cstate[e] # "created" => raises
          /\ IF raises THEN Raise(e, ok) ELSE ok /\ Goto(e, "start")
    /\ UNCHANGED <<served, frame, args, via, container, temp_dir, output_lines, timed_out,
                   exit_code, eof_seen>>
    /\ UNCHANGED <<active_executions, runtimeVars, bridgeVars, stopVars, pureVars, host, run, pool>>

\* the start failure handled without removing the container
StartFailed_NoRemove(rt) == rt

\* lines 161-165: if not started: remove_container(container)
StartFailed(rt) == remove_container(rt)

\* lines 156-185: start_container returns True, returns False (APIError,
\* also for a container that is gone) or raises
Start(e, ok) ==
    /\ pc[e] = "start"
    /\ \E r \in {"started", "false", "raise"} :
          /\ cstate[e] # "created" => r = "false"
          /\ IF r = "started"
             THEN /\ SetRt(e, [Rt(e) EXCEPT !.cstate = "running",
                                  !.cphase = IF NeedsInstall(args[e]) THEN "install"
                                             ELSE "run"])
                  /\ Yield(e, Ev("status", IF NeedsInstall(args[e])
                                           THEN "Installing packages..." ELSE "Running..."),
                           "stream_open", ok)
             ELSE IF r = "false"
             THEN /\ SetRt(e, StartFailed(Rt(e)))
                  /\ Yield(e, Ev("error", "Failed to start container"), "finally", ok)
             ELSE /\ Raise(e, ok)
                  /\ UNCHANGED runtimeVars
    /\ UNCHANGED <<served, frame, args, via, container, temp_dir, output_lines, timed_out,
                   exit_code, eof_seen>>
    /\ UNCHANGED <<active_executions, bridgeVars, stopVars, pureVars, host, run, pool>>

\* _stream_logs_async lines 325-341: the reader job is submitted and the
\* clock of the drain starts
StreamOpen(e) ==
    /\ pc[e] = "stream_open"
    /\ reader' = [reader EXCEPT ![e] = "reading"]
    /\ elapsed' = [elapsed EXCEPT ![e] = 0]
    /\ Goto(e, "drain")
    /\ UNCHANGED <<served, frame, args, via, container, temp_dir, output_lines, timed_out,
                   exit_code, eof_seen>>
    /\ UNCHANGED <<active_executions, runtimeVars, queue, logs, stopVars, pureVars, host, run, pool>>

\* the type of a line decided without looking at needs_install
MsgType_IgnoresInstall(needs_install, line) ==
    IF line = RUNNING_MARK THEN "install_complete"
    ELSE IF line = FAILED_MARK THEN "install_error"
    ELSE "stdout"

\* lines 196-201: type of the event for one line
MsgType(needs_install, line) ==
    IF needs_install /\ line = RUNNING_MARK THEN "install_complete"
    ELSE IF needs_install /\ line = FAILED_MARK THEN "install_error"
    ELSE "stdout"

\* lines 193-207 with _stream_logs_async lines 343-358: one queue item
DrainGet(e, ok) ==
    /\ pc[e] = "drain"
    /\ ~DeadlineReached(elapsed[e], DrainTimeout(args[e]))
    /\ queue[e] # << >>
    /\ queue' = [queue EXCEPT ![e] = Tail(@)]
    /\ IF Head(queue[e]) = EOF
       THEN /\ ok
            /\ eof_seen' = [eof_seen EXCEPT ![e] = TRUE]
            /\ output_lines' = output_lines
            /\ Goto(e, "classify")
       ELSE /\ output_lines' = [output_lines EXCEPT ![e] = Append(@, Head(queue[e]))]
            /\ eof_seen' = eof_seen
            /\ Yield(e, Ev(MsgType(NeedsInstall(args[e]), Head(queue[e])), Head(queue[e])),
                     "drain", ok)
    /\ UNCHANGED <<served, frame, args, via, container, temp_dir, timed_out, exit_code>>
    /\ UNCHANGED <<active_executions, runtimeVars, reader, elapsed, logs, stopVars, pureVars, host, run, pool>>

\* _stream_logs_async lines 344-352 and 359-364, then lines 208-214: the
\* deadline is reached, the container is stopped, the error is yielded
Timeout(e, ok) ==
    /\ pc[e] = "drain"
    /\ DeadlineReached(elapsed[e], DrainTimeout(args[e]))
    /\ SetRt(e, stop_container(Rt(e)))
    /\ timed_out' = [timed_out EXCEPT ![e] = TRUE]
    /\ Yield(e, Event("error", "Execution timed out after", DrainTimeout(args[e]), << >>),
             "classify", ok)
    /\ UNCHANGED <<served, frame, args, via, container, temp_dir, output_lines, exit_code,
                   eof_seen>>
    /\ UNCHANGED <<active_executions, bridgeVars, stopVars, pureVars, host, run, pool>>

\* lines 216-227
ExitCodeOf(e) == IF timed_out[e] THEN -1 ELSE wait_container(Rt(e))

\* the classification without its timed_out branch
CompleteEvent_NoTimeoutBranch(code, timedout) ==
    IF code = 0 THEN Ev("complete", "Execution completed successfully")
    ELSE Event("complete", "Execution failed with exit code", code, << >>)

\* lines 252-269
CompleteEvent(code, timedout) ==
    IF code = 0 THEN Ev("complete", "Execution completed successfully")
    ELSE IF timedout THEN Ev("complete", "Execution timed out")
    ELSE Event("complete", "Execution failed with exit code", code, << >>)

\* the dependency check without `and not needs_install`
DependencyDue_IgnoresInstall(code, timedout, needs_install, lines, language) ==
    /\ code # 0 /\ ~timedout
    /\ detect_missing_dependency(lines, language)[1] # ""

\* lines 230-236: is a dependency event due
DependencyDue(code, timedout, needs_install, lines, language) ==
    /\ code # 0 /\ ~timedout /\ ~needs_install
    /\ detect_missing_dependency(lines, language)[1] # ""

\* lines 216-269 up to the first yield: the exit code, then the dependency
\* event or else the complete event
Classify(e, ok) ==
    /\ pc[e] = "classify"
    /\ exit_code' = [exit_code EXCEPT ![e] = ExitCodeOf(e)]
    /\ IF DependencyDue(ExitCodeOf(e), timed_out[e], NeedsInstall(args[e]),
                        output_lines[e], args[e].language)
       THEN Yield(e, Event("dependency", "Missing dependency detected", 0,
                           <<detect_missing_dependency(output_lines[e], args[e].language)[2]>>),
                  "complete", ok)
       ELSE Yield(e, CompleteEvent(ExitCodeOf(e), timed_out[e]), "finally", ok)
    /\ UNCHANGED <<served, frame, args, via, container, temp_dir, output_lines, timed_out,
                   eof_seen>>
    /\ UNCHANGED <<active_executions, runtimeVars, bridgeVars, stopVars, pureVars, host, run, pool>>

\* the engine returns after the dependency event without a complete event
Complete_NoEvent(e, ok) ==
    /\ pc[e] = "complete"
    /\ ok
    /\ Goto(e, "finally")
    /\ UNCHANGED <<served, frame, args, via, container, temp_dir, output_lines, timed_out,
                   exit_code, eof_seen>>
    /\ UNCHANGED <<active_executions, runtimeVars, bridgeVars, stopVars, pureVars, host, run, pool>>

\* lines 251-269 after a dependency event
Complete(e, ok) ==
    /\ pc[e] = "complete"
    /\ Yield(e, CompleteEvent(exit_code[e], timed_out[e]), "finally", ok)
    /\ UNCHANGED <<served, frame, args, via, container, temp_dir, output_lines, timed_out,
                   exit_code, eof_seen>>
    /\ UNCHANGED <<active_executions, runtimeVars, bridgeVars, stopVars, pureVars, host, run, pool>>

\* the finally clause without `del self.active_executions[execution_id]`
Release_KeepsEntry(e) ==
    /\ active_executions' = active_executions
    /\ temp_dir' = [temp_dir EXCEPT ![e] = "deleted"]
    /\ Finish(e)

\* the finally clause without temp_dir_obj.cleanup()
Release_KeepsTempDir(e) ==
    /\ active_executions' = active_executions \ {e}
    /\ temp_dir' = temp_dir
    /\ Finish(e)

\* lines 291-297: registry entry and temporary directory
Release(e) ==
    /\ active_executions' = active_executions \ {e}
    /\ temp_dir' = [temp_dir EXCEPT ![e] = "deleted"]
    /\ Finish(e)

\* a finally clause that reports a cleanup that returned False
Finally_SurfacesFailure(e) ==
    /\ pc[e] = "finally"
    /\ IF container[e]
       THEN /\ SetRt(e, cleanup_container(Rt(e)))
            /\ IF cleanup_container_returns(Rt(e))
               THEN Goto(e, "release")
               ELSE Yield(e, Ev("error", "Cleanup error"), "release", TRUE)
            /\ UNCHANGED <<active_executions, temp_dir>>
       ELSE /\ Release(e)
            /\ UNCHANGED runtimeVars
    /\ UNCHANGED <<served, frame, args, via, container, output_lines, timed_out, exit_code,
                   eof_seen>>
    /\ UNCHANGED <<bridgeVars, stopVars, pureVars, host, run, pool>>

\* lines 279-290: the finally clause; with a container it awaits
\* cleanup_container before the rest
Finally(e) ==
    /\ pc[e] = "finally"
    /\ IF container[e]
       THEN /\ SetRt(e, cleanup_container(Rt(e)))
            /\ Goto(e, "release")
            /\ UNCHANGED <<active_executions, temp_dir>>
       ELSE /\ Release(e)
            /\ UNCHANGED runtimeVars
    /\ UNCHANGED <<served, frame, args, via, container, output_lines, timed_out, exit_code,
                   eof_seen>>
    /\ UNCHANGED <<bridgeVars, stopVars, pureVars, host, run, pool>>

FinallyRelease(e) ==
    /\ pc[e] = "release"
    /\ Release(e)
    /\ UNCHANGED <<served, frame, args, via, container, output_lines, timed_out, exit_code,
                   eof_seen>>
    /\ UNCHANGED <<runtimeVars, bridgeVars, stopVars, pureVars, host, run, pool>>

\* The generator was left suspended at a yield.  The event loop's
\* async-generator finalizer closes it: GeneratorExit is raised at the
\* yield, which runs the finally clause when the yield is inside the try
\* statement (the temporary directory exists exactly then).
AgenFinalize(e) ==
    /\ pc[e] = "abandoned"
    /\ Goto(e, IF temp_dir[e] = "exists" THEN "finally" ELSE "done")
    /\ UNCHANGED <<served, frame, args, via, container, temp_dir, output_lines, timed_out,
                   exit_code, eof_seen>>
    /\ UNCHANGED <<active_executions, runtimeVars, bridgeVars, stopVars, pureVars, host, run, pool>>

(***************************************************************************)
(* CodeExecutor.stop_execution, called by POST /execute/stop/{id} and by   *)
(* the stop control frame of /ws/output/{id}                               *)
(***************************************************************************)
\* stop_execution without `del self.active_executions[execution_id]`
stop_execution_NoDel(id) ==
    /\ IF id \notin active_executions
       THEN /\ stop_result' = <<id, FALSE>>
            /\ UNCHANGED <<active_executions, runtimeVars, stop_true, cancel_drain>>
       ELSE /\ SetRt(id, cleanup_container(Rt(id)))
            /\ active_executions' = active_executions
            /\ stop_result' = <<id, TRUE>>
            /\ stop_true' = [stop_true EXCEPT ![id] = @ + 1]
            /\ cancel_drain' = [cancel_drain EXCEPT ![id] = (pc[id] = "drain")]
    /\ UNCHANGED <<engineVars, bridgeVars, pureVars, host, run, pool>>

stop_execution(id) ==
    /\ IF id \notin active_executions
       THEN /\ stop_result' = <<id, FALSE>>
            /\ UNCHANGED <<active_executions, runtimeVars, stop_true, cancel_drain>>
       ELSE /\ SetRt(id, cleanup_container(Rt(id)))
            /\ active_executions' = active_executions \ {id}
            /\ stop_result' = <<id, TRUE>>
            /\ stop_true' = [stop_true EXCEPT ![id] = @ + 1]
            /\ cancel_drain' = [cancel_drain EXCEPT ![id] = (pc[id] = "drain")]
    /\ UNCHANGED <<engineVars, bridgeVars, pureVars, host, run, pool>>

Next ==
    \/ \E e \in Execs : WsReceive(e)
    \/ \E e \in Execs : Invoke(e)
    \/ \E e \in Execs, ok \in BOOLEAN : Entry(e, ok)
    \/ \E e \in Execs, ok \in BOOLEAN : HtmlPreview(e, ok)
    \/ \E e \in Execs, ok \in BOOLEAN : HtmlComplete(e, ok)
    \/ \E e \in Execs : Return(e)
    \/ \E e \in Execs, ok \in BOOLEAN : Prepare(e, ok)
    \/ \E e \in Execs, ok \in BOOLEAN : Create(e, ok)
    \/ \E e \in Execs, ok \in BOOLEAN : Copy(e, ok)
    \/ \E e \in Execs, ok \in BOOLEAN : Start(e, ok)
    \/ \E e \in Execs : StreamOpen(e)
    \/ \E e \in Execs, ok \in BOOLEAN : DrainGet(e, ok)
    \/ \E e \in Execs, ok \in BOOLEAN : Timeout(e, ok)
    \/ \E e \in Execs, ok \in BOOLEAN : Classify(e, ok)
    \/ \E e \in Execs, ok \in BOOLEAN : Complete(e, ok)
    \/ \E e \in Execs : Finally(e)
    \/ \E e \in Execs : FinallyRelease(e)
    \/ \E e \in Execs : AgenFinalize(e)
    \/ \E e \in Execs : ContainerPrint(e)
    \/ \E e \in Execs : ContainerStep(e)
    \/ \E e \in Execs : ReaderRead(e)
    \/ \E e \in Execs : ReaderEof(e)
    \/ \E e \in Execs : Tick(e)
    \/ \E id \in Execs : stop_execution(id)

Spec == Init /\ [][Next]_vars

\* The steps the event loop and the pool take by themselves for an
\* execution: the reader job runs on its worker thread, a ready coroutine is
\* resumed, an abandoned generator is closed.  The passing of time, the
\* container's program, the requests and the stop calls are not among them.
EngineStep(e) ==
    \/ ReaderRead(e)
    \/ ReaderEof(e)
    \/ \E ok \in BOOLEAN : DrainGet(e, ok)
    \/ \E ok \in BOOLEAN : Timeout(e, ok)
    \/ \E ok \in BOOLEAN : Classify(e, ok)
    \/ \E ok \in BOOLEAN : Complete(e, ok)
    \/ Finally(e)
    \/ FinallyRelease(e)
    \/ AgenFinalize(e)

\* The executions of one program without packages, started by a direct
\* call of execute_code_stream and canceled at any moment.
InvokeProgram(e) ==
    /\ Invoke(e)
    /\ args'[e] = [language |-> "python", code |-> CodePlain,
                   install_packages |-> NoPackages]

FairNext ==
    \/ \E e \in Execs : InvokeProgram(e)
    \/ \E e \in Execs, ok \in BOOLEAN : Entry(e, ok)
    \/ \E e \in Execs, ok \in BOOLEAN : Prepare(e, ok)
    \/ \E e \in Execs, ok \in BOOLEAN : Create(e, ok)
    \/ \E e \in Execs, ok \in BOOLEAN : Copy(e, ok)
    \/ \E e \in Execs, ok \in BOOLEAN : Start(e, ok)
    \/ \E e \in Execs : StreamOpen(e)
    \/ \E e \in Execs, ok \in BOOLEAN : DrainGet(e, ok)
    \/ \E e \in Execs, ok \in BOOLEAN : Timeout(e, ok)
    \/ \E e \in Execs, ok \in BOOLEAN : Classify(e, ok)
    \/ \E e \in Execs, ok \in BOOLEAN : Complete(e, ok)
    \/ \E e \in Execs : Finally(e)
    \/ \E e \in Execs : FinallyRelease(e)
    \/ \E e \in Execs : AgenFinalize(e)
    \/ \E e \in Execs : ContainerPrint(e)
    \/ \E e \in Execs : ContainerStep(e)
    \/ \E e \in Execs : ReaderRead(e)
    \/ \E e \in Execs : ReaderEof(e)
    \/ \E e \in Execs : Tick(e)
    \/ \E id \in Execs : stop_execution(id)

FairSpec == Init /\ [][FairNext]_vars /\ \A e \in Execs : WF_vars(EngineStep(e))

(***************************************************************************)
(* The pure helpers, called on their own with inputs around their limits   *)
(***************************************************************************)
\* lengths of the codes handed to validate_code
CheckLens == {0, 1, 3, 20, 500001, MAX_CODE_LEN - 1, MAX_CODE_LEN, MAX_CODE_LEN + 1}

\* codes of ASCII characters (one byte each) and codes of two-byte
\* characters, blank or not, with or without "public class"
ValidateCodes ==
    {c \in [text : {"ascii", "two-byte characters"}, len : CheckLens,
            bytes : CheckLens \cup {2 * n : n \in CheckLens},
            blank : BOOLEAN, public_class : BOOLEAN, class_token : BOOLEAN] :
        /\ c.bytes = (IF c.text = "ascii" THEN c.len ELSE 2 * c.len)
        /\ c.len = 0 => c.blank /\ c.text = "ascii"
        /\ c.blank => c.text = "ascii" /\ ~c.public_class
        /\ c.public_class => c.len >= 20
        /\ c.public_class => c.class_token}

ValidateCalls ==
    {[fn |-> "validate_code", code |-> c, language |-> l] :
        c \in ValidateCodes, l \in Langs}

\* Java source text as the sequence of its maximal runs: words (runs of
\* \w characters), whitespace runs and other characters
WordTokens == {"public", "xpublic", "class", "classy", "Foo"}
SpaceTokens == {" ", "\n"}
OtherTokens == {"{"}
Tokens == WordTokens \cup SpaceTokens \cup OtherTokens
\* words that end with the letters "public", words that begin with "class"
EndsWithPublic == {"public", "xpublic"}
StartsWithClass == {"class", "classy"}
TokenLen(t) == IF t \in SpaceTokens \/ t \in OtherTokens THEN 1
               ELSE IF t = "Foo" THEN 3
               ELSE IF t = "class" THEN 5
               ELSE IF t = "xpublic" THEN 7 ELSE 6

MaxTokens == 5

\* two words, or two whitespace runs, never stand side by side
Tokenized(src) ==
    \A i \in 1..(Len(src) - 1) :
        /\ ~(src[i] \in WordTokens /\ src[i + 1] \in WordTokens)
        /\ ~(src[i] \in SpaceTokens /\ src[i + 1] \in SpaceTokens)

JavaSources ==
    {src \in UNION {[1..n -> Tokens] : n \in 1..MaxTokens} : Tokenized(src)}

RECURSIVE SourceLen(_)
SourceLen(src) == IF src = << >> THEN 0 ELSE TokenLen(Head(src)) + SourceLen(Tail(src))

\* "public class" in code: the letters "public", one space, the letters "class"
ContainsPublicClass(src) ==
    \E i \in 1..(Len(src) - 2) :
        src[i] \in EndsWithPublic /\ src[i + 1] = " " /\ src[i + 2] \in StartsWithClass

\* "class" in code
ContainsClass(src) == \E i \in DOMAIN src : src[i] \in StartsWithClass

\* the source as validate_code sees it
SourceCode(src) ==
    Code("java source", SourceLen(src), SourceLen(src),
         \A i \in DOMAIN src : src[i] \in SpaceTokens,
         ContainsPublicClass(src), ContainsClass(src))

\* r'public\s+class\s+(\w+)' matched at token i
MatchAt(src, i) ==
    /\ i + 4 <= Len(src)
    /\ src[i] \in EndsWithPublic
    /\ src[i + 1] \in SpaceTokens
    /\ src[i + 2] = "class"
    /\ src[i + 3] \in SpaceTokens
    /\ src[i + 4] \in WordTokens

\* re.search: the leftmost match
RECURSIVE SearchFrom(_, _)
SearchFrom(src, i) ==
    IF i > Len(src) THEN "Main"
    ELSE IF MatchAt(src, i) THEN src[i + 4]
    ELSE SearchFrom(src, i + 1)

\* helpers.extract_java_classname
extract_java_classname(src) == SearchFrom(src, 1)

\* FILE_EXTENSIONS.get(language, ".txt")
FILE_EXTENSIONS(language) ==
    CASE language = "python" -> ".py"
      [] language = "nodejs" -> ".js"
      [] language = "java" -> ".java"
      [] language = "cpp" -> ".cpp"
      [] language = "html" -> ".html"
      [] OTHER -> ".txt"

\* the main file written with the name "Main" for every Java source
prepare_code_file_AlwaysMain(language, src) ==
    IF language = "java" THEN <<"Main", ".java">>
    ELSE <<"main", FILE_EXTENSIONS(language)>>

\* CodeExecutor._prepare_code_file: the name of the file, <<stem, extension>>
prepare_code_file(language, src) ==
    IF language = "java" THEN <<extract_java_classname(src), ".java">>
    ELSE <<"main", FILE_EXTENSIONS(language)>>

\* EXECUTION_COMMANDS: each part of a template as its literal pieces and
\* placeholders
EXECUTION_COMMANDS(language) ==
    CASE language = "python" -> << <<"python">>, <<"-u">>, <<"{file}">> >>
      [] language = "nodejs" -> << <<"node">>, <<"{file}">> >>
      [] language = "java" ->
            << <<"sh">>, <<"-c">>,
               <<"javac ", "{file}", " && java -cp /workspace ", "{classname}">> >>
      [] language = "cpp" ->
            << <<"sh">>, <<"-c">>,
               <<"g++ -o /tmp/program ", "{file}", " && /tmp/program">> >>
      [] language = "ubuntu" -> << <<"bash">>, <<"-c">>, <<"{code}">> >>
HasCommand == {"python", "nodejs", "java", "cpp", "ubuntu"}

\* the replace calls of _prepare_command on one piece
Substitute(piece, language, file, src) ==
    IF piece = "{file}" THEN <<"/workspace/", file[1], file[2]>>
    ELSE IF piece = "{classname}" /\ language = "java" THEN <<extract_java_classname(src)>>
    ELSE IF piece = "{code}" /\ language = "ubuntu" THEN src
    ELSE <<piece>>

RECURSIVE SubstitutePart(_, _, _, _)
SubstitutePart(part, language, file, src) ==
    IF part = << >> THEN << >>
    ELSE Substitute(Head(part), language, file, src)
             \o SubstitutePart(Tail(part), language, file, src)

\* CodeExecutor._prepare_command
prepare_command(language, file, src) ==
    IF language \notin HasCommand THEN << <<"echo">>, <<"Unsupported language">> >>
    ELSE LET t == EXECUTION_COMMANDS(language)
         IN  [i \in DOMAIN t |-> SubstitutePart(t[i], language, file, src)]

\* a Java source of every shape, one source for each other language
PrepareCalls ==
    {[fn |-> "prepare", language |-> "java", source |-> src] : src \in JavaSources}
    \cup {[fn |-> "prepare", language |-> l, source |-> <<"Foo">>] : l \in Langs \ {"java"}}

\* File names as sequences of characters: a letter, a letter outside
\* ASCII, the two separators, the dot, the space and the hyphen
NameChars == {"a", "é", "/", "\\", ".", " ", "-"}
MaxNameLen == 4
FileNames == UNION {[1..n -> NameChars] : n \in 0..MaxNameLen}

\* \w of a str pattern: letters and digits of any script, and '_'; the
\* runs of letters "main", "py", "cpp", "input" and "txt" stand for their letters
IsWordChar(c) == c \in {"a", "é", "_", "main", "py", "cpp", "input", "txt"}

\* filename.split(sep)[-1]
AfterLast(name, sep) ==
    LET at == {i \in DOMAIN name : name[i] = sep}
    IN  IF at = {} THEN name
        ELSE SubSeq(name, (CHOOSE i \in at : \A j \in at : j <= i) + 1, Len(name))

\* re.sub(r'[^\w\-_\.]', '_', filename)
ReplaceUnsafe(name) ==
    [i \in DOMAIN name |->
        IF IsWordChar(name[i]) \/ name[i] \in {"-", "_", "."} THEN name[i] ELSE "_"]

\* the path components removed at '/' only
sanitize_filename_SlashOnly(name) == ReplaceUnsafe(AfterLast(name, "/"))

\* helpers.sanitize_filename
sanitize_filename(name) == ReplaceUnsafe(AfterLast(AfterLast(name, "/"), "\\"))

\* CodeExecutor._prepare_additional_file: the name joined to temp_dir and
\* what open(file_path, 'w') does; the names "", "." and ".." join to a
\* directory, which open refuses
prepare_additional_file(name) ==
    LET safe_filename == sanitize_filename(name)
    IN  <<safe_filename,
          IF safe_filename \in {<< >>, <<".">>, <<".", ".">>} THEN "raises" ELSE "written">>

SanitizeCalls == {[fn |-> "prepare_additional_file", filename |-> f] : f \in FileNames}

\* the text of a name
RECURSIVE JoinName(_)
JoinName(name) == IF name = << >> THEN "" ELSE Head(name) \o JoinName(Tail(name))

\* open(path, 'w') and write: the file of that name is made or replaced
WriteFile(ws, name, content) == {f \in ws : f[1] # name} \cup {<<name, content>>}

\* lines 107-113: the extra files, in the order of the list; a name that
\* open refuses raises and ends the materialization
RECURSIVE prepare_additional_files(_, _)
prepare_additional_files(st, files) ==
    IF files = << >> \/ st[1] = "raises" THEN st
    ELSE LET r == prepare_additional_file(Head(files).name)
         IN  prepare_additional_files(
                 IF r[2] = "raises" THEN <<"raises", st[2]>>
                 ELSE <<"written", WriteFile(st[2], JoinName(r[1]), Head(files).content)>>,
                 Tail(files))

\* lines 102-128: the main file, then the extra files, then input.txt when
\* stdin is not empty: <<"written" or "raises", files of the workspace>>
materialize(language, code, files, stdin) ==
    LET file == prepare_code_file(language, <<"Foo">>)
        main == WriteFile({}, file[1] \o file[2], code)
        extra == prepare_additional_files(<<"written", main>>, files)
    IN  IF extra[1] = "written" /\ stdin # ""
        THEN <<"written", WriteFile(extra[2], "input.txt", stdin)>>
        ELSE extra

\* names of extra files: the name of a main file, alone and behind a
\* directory, the name of the stdin file, other names, and a name that open
\* refuses
ExtraNames ==
    {<<"main", ".", "py">>, <<"a", "/", "main", ".", "py">>, <<"main", ".", "cpp">>,
     <<"input", ".", "txt">>, <<"a">>, <<"a", " ", "a">>, <<".">>}
MaxFiles == 2
ExtraFiles == UNION {[1..n -> [name : ExtraNames, content : {"extra text"}]] : n \in 0..MaxFiles}
MaterializeCalls ==
    {[fn |-> "materialize", language |-> l, code |-> "code text", files |-> fs, stdin |-> st] :
        l \in {"python", "cpp"}, fs \in ExtraFiles, st \in {"", "stdin text"}}

\* validate_code on Java sources
SourceCalls == {[fn |-> "validate_source", source |-> src] : src \in JavaSources}

PureInit ==
    /\ InitState
    /\ call \in ValidateCalls \cup PrepareCalls \cup SanitizeCalls \cup SourceCalls
                \cup MaterializeCalls
    /\ result = << >>

\* is_valid, error_msg = validate_code(code, language)
CallValidateCode ==
    /\ call.fn = "validate_code"
    /\ result = << >>
    /\ result' = validate_code(call.code, call.language)
    /\ UNCHANGED <<engineVars, active_executions, runtimeVars, bridgeVars, stopVars, call, host, run, pool>>

\* validate_code(code, "java") on a source text, and the class name the
\* workspace file of that text would get
CallValidateSource ==
    /\ call.fn = "validate_source"
    /\ result = << >>
    /\ result' = <<validate_code(SourceCode(call.source), "java")[1],
                   extract_java_classname(call.source)>>
    /\ UNCHANGED <<engineVars, active_executions, runtimeVars, bridgeVars, stopVars, call, host, run, pool>>

\* lines 102-128 of execute_code_stream on a temporary directory
CallMaterialize ==
    /\ call.fn = "materialize"
    /\ result = << >>
    /\ result' = materialize(call.language, call.code, call.files, call.stdin)
    /\ UNCHANGED <<engineVars, active_executions, runtimeVars, bridgeVars, stopVars, call, host, run, pool>>

\* file_path = self._prepare_code_file(temp_dir, language, code);
\* command = self._prepare_command(language, file_path, code)
CallPrepare ==
    /\ call.fn = "prepare"
    /\ result = << >>
    /\ LET file == prepare_code_file(call.language, call.source)
       IN  result' = <<file, prepare_command(call.language, file, call.source)>>
    /\ UNCHANGED <<engineVars, active_executions, runtimeVars, bridgeVars, stopVars, call, host, run, pool>>

\* self._prepare_additional_file(temp_dir, file_info['name'], ...)
CallPrepareAdditionalFile ==
    /\ call.fn = "prepare_additional_file"
    /\ result = << >>
    /\ result' = prepare_additional_file(call.filename)
    /\ UNCHANGED <<engineVars, active_executions, runtimeVars, bridgeVars, stopVars, call, host, run, pool>>

PureNext ==
    \/ CallValidateCode
    \/ CallPrepare
    \/ CallPrepareAdditionalFile
    \/ CallValidateSource
    \/ CallMaterialize

PureSpec == PureInit /\ [][PureNext]_vars

(***************************************************************************)
(* Properties                                                              *)
(***************************************************************************)
TerminalTypes == {"complete", "error"}
Terminals(e) == {i \in DOMAIN events[e] : events[e][i].type \in TerminalTypes}
OfType(e, t) == {i \in DOMAIN events[e] : events[e][i].type = t}

\* the consumer took every event and the generator is exhausted
Consumed(e) == pc[e] = "done" /\ client[e] = "closed"
\* the generator has returned or has been closed
StreamEnded(e) == pc[e] \in {"done", "raised"}
Canceled(e) == stop_true[e] > 0

TimeoutError(e) == Event("error", "Execution timed out after", DrainTimeout(args[e]), << >>)
TimedOutComplete == Ev("complete", "Execution timed out")
SuccessComplete == Ev("complete", "Execution completed successfully")
FailedComplete(n) == Event("complete", "Execution failed with exit code", n, << >>)

\* C1, as stated: an execution emits exactly one event of type complete or
\* error in total: never two of them, and one once its stream was consumed
\* to the end.
C1_ExactlyOneTerminal ==
    \A e \in Execs :
        /\ Cardinality(Terminals(e)) <= 1
        /\ Consumed(e) => Cardinality(Terminals(e)) = 1

\* C1, amended: an execution whose stream is consumed to its end has emitted
\* exactly one complete-or-error event, its last event, unless the drain
\* deadline was hit; then it has emitted exactly two, the timeout error
\* followed by complete("Execution timed out").  No execution ever emits
\* more than that.
C1_OneTerminalOrTimeoutPair ==
    \A e \in Execs :
        LET s == events[e]
            n == Len(s)
        IN  /\ Cardinality(Terminals(e)) <= (IF timed_out[e] THEN 2 ELSE 1)
            /\ Consumed(e) =>
                 IF timed_out[e]
                 THEN /\ Cardinality(Terminals(e)) = 2
                      /\ s[n - 1] = TimeoutError(e)
                      /\ s[n] = TimedOutComplete
                 ELSE /\ Cardinality(Terminals(e)) = 1
                      /\ s[n].type \in TerminalTypes

C1_Witness ==
    \E e \in Execs :
        /\ Consumed(e) /\ ~timed_out[e] /\ container[e]
        /\ OfType(e, "dependency") # {}

\* C2: once the event stream of an execution has ended, on whatever path,
\* no container of that execution exists in the runtime.
C2_NoContainerOutlivesExecution ==
    \A e \in Execs : StreamEnded(e) => cstate[e] \in {"none", "removed"}

C2_Witness ==
    \E e \in Execs :
        StreamEnded(e) /\ cstate[e] = "removed" /\ ~Canceled(e) /\ eof_seen[e]

\* C3: an id is in the registry only if its execution has created its
\* container and has not finished its terminal cleanup; once the stream of
\* the execution has ended the id is not in the registry.
RegisteredPcs == {"copy", "start", "stream_open", "drain", "classify", "complete",
                  "finally", "release", "abandoned"}
C3_RegistryOnlyWhileActive ==
    \A e \in Execs :
        /\ e \in active_executions =>
              container[e] /\ cstate[e] # "none" /\ pc[e] \in RegisteredPcs
        /\ StreamEnded(e) => e \notin active_executions

C3_Witness ==
    \E e \in Execs :
        StreamEnded(e) /\ container[e] /\ ~Canceled(e) /\ e \notin active_executions

\* C4, as stated: in every state after a complete or error event of an
\* execution was emitted (and delivered), its temporary directory does not
\* exist.
C4_NoTempDirAfterTerminalEvent ==
    \A e \in Execs :
        (Terminals(e) # {} /\ client[e] # "lost") => temp_dir[e] # "exists"

\* C4, amended: in every state after the event stream of an execution has
\* ended (the generator has returned or was closed), its temporary directory
\* does not exist.
C4_NoTempDirAfterStreamEnd ==
    \A e \in Execs : StreamEnded(e) => temp_dir[e] # "exists"

C4_Witness ==
    \E e \in Execs : StreamEnded(e) /\ temp_dir[e] = "deleted" /\ Terminals(e) # {}

\* C5: the step in which the consumer loses its peer while the execution is
\* registered cancels the execution: its registry entry is removed and its
\* container is stopped and removed.
C5_PeerLossCancels ==
    [][\A e \in Execs :
          (client[e] = "open" /\ client'[e] = "lost" /\ e \in active_executions)
              => (e \notin active_executions' /\ cstate'[e] = "removed")]_vars

\* C6: a stop_execution call for a registered id returns True, removes the
\* entry and leaves its container removed; a call for any other id returns
\* False and changes nothing; so no id gets True twice.
C6_CancelIdempotent ==
    /\ [](\A e \in Execs : stop_true[e] <= 1)
    /\ [][stop_result' # stop_result =>
            LET id == stop_result'[1] IN
            IF id \in active_executions
            THEN /\ stop_result'[2]
                 /\ id \notin active_executions'
                 /\ cstate'[id] = "removed"
            ELSE /\ ~stop_result'[2]
                 /\ UNCHANGED <<engineVars, active_executions, runtimeVars, bridgeVars,
                                stop_true, cancel_drain>>]_vars

C6_Witness ==
    /\ stop_result = <<"exec_a", FALSE>>
    /\ stop_true["exec_a"] = 1

\* C7: after stop_execution has canceled an execution that was draining, the
\* engine emits no further event for it (checked on the steps in which the
\* deadline has not been hit as well).
C7_NoEventAfterCancel ==
    [][\A e \in Execs :
          (cancel_drain[e] /\ ~timed_out'[e]) => events'[e] = events[e]]_vars

\* C8: when the drain deadline is hit the container is stopped, there is no
\* dependency event, the only complete event is complete("Execution timed
\* out") directly after the timeout error carrying the deadline, and these
\* two are the last events of the consumed stream.
C8_TimeoutEvents ==
    \A e \in Execs :
        timed_out[e] =>
            LET s == events[e]
                n == Len(s)
            IN  /\ cstate[e] # "running"
                /\ OfType(e, "dependency") = {}
                /\ \A i \in OfType(e, "complete") :
                      i = n /\ s[i] = TimedOutComplete
                /\ \A i \in OfType(e, "error") : i >= n - 1 /\ s[i] = TimeoutError(e)
                /\ OfType(e, "error") # {}
                /\ Consumed(e) => s[n] = TimedOutComplete /\ s[n - 1] = TimeoutError(e)

C8_Witness == \E e \in Execs : timed_out[e] /\ Consumed(e)

\* C9: when the drain ended on EOF and the stream was consumed to the end,
\* the last event is complete(success) if the exit status of the container's
\* command is 0 and complete(failed with that exit status) otherwise.
C9_ExitCodeReported ==
    \A e \in Execs :
        (eof_seen[e] /\ Consumed(e)) =>
            events[e][Len(events[e])] =
                (IF exit_status[e] = 0 THEN SuccessComplete
                 ELSE FailedComplete(exit_status[e]))

\* C10: at most one dependency event; it is emitted only without the install
\* path, with a non-zero exit code and no timeout; no complete event precedes
\* it, and one follows it in the consumed stream.
C10_DependencyEvent ==
    \A e \in Execs :
        /\ Cardinality(OfType(e, "dependency")) <= 1
        /\ \A i \in OfType(e, "dependency") :
              /\ ~NeedsInstall(args[e]) /\ ~timed_out[e] /\ exit_code[e] # 0
              /\ \A j \in OfType(e, "complete") : j > i
              /\ Consumed(e) => OfType(e, "complete") # {}

C10_Witness ==
    \E e \in Execs : Consumed(e) /\ OfType(e, "dependency") # {}

(***************************************************************************)
(* Prelude, install path, validation                                       *)
(***************************************************************************)
InstallTypes == {"install_start", "install_complete", "install_error"}
Started(e) == pc[e] # "idle"
Html(e) == args[e].language = "html"
\* the code of the execution passes the three rules of validation
PassesValidation(e) ==
    /\ ~args[e].code.blank /\ args[e].code.len > 0
    /\ args[e].code.len <= MAX_CODE_LEN
    /\ args[e].language = "java" => args[e].code.public_class
InstallPath(e) ==
    args[e].install_packages # << >> /\ args[e].language \in {"python", "nodejs"}

\* C11: for an execution that is not html and passes validation: with a
\* non-empty install_packages and language python or nodejs the first event
\* is install_start carrying the package list, the only install_start, and
\* every stdout event comes after it; otherwise the first event is
\* status("Starting execution...").  Without the install path no
\* install_start, install_complete or install_error event is ever emitted.
C11_PreludeEvent ==
    \A e \in Execs :
        LET s == events[e] IN
        /\ (Started(e) /\ ~Html(e) /\ PassesValidation(e) /\ s # << >>) =>
              IF InstallPath(e)
              THEN /\ s[1].type = "install_start"
                   /\ s[1].pkg = args[e].install_packages
                   /\ OfType(e, "install_start") = {1}
                   /\ \A i \in OfType(e, "stdout") : i > 1
              ELSE s[1] = Ev("status", "Starting execution...")
        /\ ~InstallPath(e) => \A i \in DOMAIN s : s[i].type \notin InstallTypes

C11_Witness ==
    \E e \in Execs :
        /\ Consumed(e) /\ InstallPath(e)
        /\ OfType(e, "stdout") # {} /\ OfType(e, "install_complete") # {}

\* C12: on the install path at most one event of the types install_complete
\* and install_error is emitted in an execution, whatever the outcomes of
\* the install command and of the program.
C12_OneInstallOutcome ==
    \A e \in Execs :
        InstallPath(e) =>
            Cardinality(OfType(e, "install_complete") \cup OfType(e, "install_error")) <= 1

\* C13: on the install path, when the install command has exited with a
\* non-zero code n, the program is never run and, once the stream has been
\* consumed to its end after EOF (no stop_execution in between), the script
\* has exited with n and the events end with install_error ... complete(
\* "Execution failed with exit code n").
C13_InstallFailure ==
    \A e \in Execs :
        (InstallPath(e) /\ install_status[e] > 0) =>
            /\ cphase[e] # "run"
            /\ OfType(e, "install_complete") = {}
            /\ (Consumed(e) /\ eof_seen[e] /\ ~Canceled(e)) =>
                  /\ exit_status[e] = install_status[e]
                  /\ OfType(e, "install_error") # {}
                  /\ events[e][Len(events[e])] = FailedComplete(install_status[e])

\* the messages of validate_code
ValidationMessages ==
    {"Code cannot be empty", "Code is too large (max 1MB)",
     "Java code must contain a public class"}

\* C14: when validation fails (blank code, oversize code, Java code without
\* its class declaration) the engine emits exactly one event, an error event
\* with the validation message, and there is no temporary directory, no
\* container and no registry entry for the execution.
C14_ValidationFailure ==
    \A e \in Execs :
        (Started(e) /\ ~Html(e) /\ ~PassesValidation(e)) =>
            /\ Len(events[e]) <= 1
            /\ \A i \in DOMAIN events[e] :
                  /\ events[e][i].type = "error"
                  /\ events[e][i].content \in ValidationMessages
            /\ StreamEnded(e) /\ client[e] # "lost" => Len(events[e]) = 1
            /\ temp_dir[e] = "none" /\ cstate[e] = "none"
            /\ ~container[e] /\ e \notin active_executions

C14_Witness ==
    \E e \in Execs :
        /\ Consumed(e) /\ ~Html(e) /\ ~PassesValidation(e)
        /\ args[e].code = CodeTooLarge

\* C15 (the languages without a rule of their own): validate_code accepts a
\* code iff it is not blank and its size is at most 1,000,000 bytes.
C15_ValidationBytes ==
    (call.fn = "validate_code" /\ result # << >> /\ call.language # "java") =>
        (result[1] <=> (~call.code.blank /\ call.code.bytes <= MAX_CODE_LEN))

\* the language registry
LanguageRegistry == {"python", "nodejs", "java", "cpp", "ubuntu", "html"}

\* C16: for a submission whose language is not in the registry the engine
\* emits nothing but a single error event, and no workspace, container or
\* registry entry is made for it.
C16_UnknownLanguageRejected ==
    \A e \in Execs :
        (Started(e) /\ args[e].language \notin LanguageRegistry) =>
            /\ Len(events[e]) <= 1
            /\ \A i \in DOMAIN events[e] : events[e][i].type = "error"
            /\ temp_dir[e] = "none" /\ cstate[e] = "none"
            /\ e \notin active_executions

\* [A-Za-z0-9._\-@/]+ on the package names of the model
PackageNameOk(p) == p \in {"numpy", "lodash"}

\* C17: a submission with an install_packages entry outside
\* [A-Za-z0-9._\-@/]+ is rejected at validation: no container is created for
\* it (so no script with that entry runs) and its only event is an error.
C17_UnsafePackageRejected ==
    \A e \in Execs :
        (Started(e)
         /\ \E i \in DOMAIN args[e].install_packages :
               ~PackageNameOk(args[e].install_packages[i])) =>
            /\ cstate[e] = "none"
            /\ StreamEnded(e) /\ client[e] # "lost" =>
                  Len(events[e]) = 1 /\ events[e][1].type = "error"

HtmlEvents(e) ==
    << Ev("status", "Rendering HTML preview..."),
       Ev("html_preview", args[e].code.text),
       Ev("complete", "HTML rendered successfully") >>
C19_HtmlPreview ==
    \A e \in Execs :
        (Started(e) /\ Html(e)) =>
            /\ Len(events[e]) <= 3
            /\ events[e] = SubSeq(HtmlEvents(e), 1, Len(events[e]))
            /\ StreamEnded(e) /\ client[e] # "lost" => events[e] = HtmlEvents(e)
            /\ temp_dir[e] = "none" /\ cstate[e] = "none"
            /\ ~container[e] /\ e \notin active_executions

C19_Witness ==
    \E e \in Execs : Consumed(e) /\ Html(e) /\ args[e].code = CodePlain

\* the contents of the output events of an execution, in emission order
IsOutput(ev) == ev.type \in {"stdout", "install_complete", "install_error"}
Outputs(e) ==
    LET s == SelectSeq(events[e], IsOutput)
    IN  [i \in 1..Len(s) |-> s[i].content]

\* C20: the contents of the stdout, install_complete and install_error
\* events of an execution, in emission order, are the chunks the log stream
\* has yielded, in the order it yielded them: always an initial part of
\* them, and all of them once the drain has ended on EOF.
C20_OutputOrder ==
    \A e \in Execs :
        /\ Len(Outputs(e)) <= Len(logs[e])
        /\ Outputs(e) = SubSeq(logs[e], 1, Len(Outputs(e)))
        /\ eof_seen[e] => Outputs(e) = logs[e]

C20_Witness ==
    \E e \in Execs : eof_seen[e] /\ Consumed(e) /\ Len(logs[e]) >= 3 /\ ~Canceled(e)

(***************************************************************************)
(* The life of the process: main.lifespan, with the executions reduced to  *)
(* the container each one creates and removes.                             *)
(***************************************************************************)
MaxLaunched == 3
LaunchLanguages == {"python", "java"}

\* the code before `yield` in lifespan: banner, configuration and checks;
\* it lists and removes no container
Startup ==
    /\ host.lifecycle = "stopped"
    /\ host' = [host EXCEPT !.lifecycle = "serving"]
    /\ UNCHANGED <<engineVars, active_executions, runtimeVars, bridgeVars, stopVars, pureVars, run, pool>>

\* an execution creates its container under the generated name
Launch ==
    /\ host.lifecycle = "serving"
    /\ host.launched < MaxLaunched
    /\ \E language \in LaunchLanguages :
          LET name == generate_container_name(ToString(host.launched + 1), language)
          IN  host' = [host EXCEPT !.launched = @ + 1,
                                   !.containers = @ \cup {name},
                                   !.owned = @ \cup {name}]
    /\ UNCHANGED <<engineVars, active_executions, runtimeVars, bridgeVars, stopVars, pureVars, run, pool>>

\* the finally block of the execution removes its container
CleanupOwned ==
    /\ host.lifecycle = "serving"
    /\ \E name \in host.owned :
          host' = [host EXCEPT !.containers = @ \ {name}, !.owned = @ \ {name}]
    /\ UNCHANGED <<engineVars, active_executions, runtimeVars, bridgeVars, stopVars, pureVars, run, pool>>

\* the process is killed: nothing of lifespan runs, the containers stay
Crash ==
    /\ host.lifecycle = "serving"
    /\ host' = [host EXCEPT !.lifecycle = "stopped", !.owned = {}]
    /\ UNCHANGED <<engineVars, active_executions, runtimeVars, bridgeVars, stopVars, pureVars, run, pool>>

\* the name filter of containers.list: the name contains the given text
NameFilter(name, text) == \E i \in DOMAIN name : name[i] = text

\* the code after `yield` in lifespan: containers.list(filters={"name":
\* "cloudrun_"}, all=True) and remove(force=True) for each
Shutdown ==
    /\ host.lifecycle = "serving"
    /\ host' = [host EXCEPT !.lifecycle = "stopped", !.owned = {},
                            !.containers = {c \in @ : ~NameFilter(c, "cloudrun_")}]
    /\ UNCHANGED <<engineVars, active_executions, runtimeVars, bridgeVars, stopVars, pureVars, run, pool>>

LifespanNext == Startup \/ Launch \/ CleanupOwned \/ Crash \/ Shutdown

LifespanSpec == Init /\ [][LifespanNext]_vars

\* the name begins with the sandbox prefix
HasSandboxPrefix(name) == name[1] = "cloudrun_"

\* C28: while the process serves, no container with the sandbox prefix is
\* left on the host from a previous process (every one there belongs to an
\* execution of this process), and the containers without the prefix are
\* all still there.
C28_StartupSweep ==
    host.lifecycle = "serving" =>
        /\ \A c \in host.containers : HasSandboxPrefix(c) => c \in host.owned
        /\ \A c \in ForeignContainers : ~HasSandboxPrefix(c) => c \in host.containers

(***************************************************************************)
(* Several executions and the worker pool.  Every blocking Docker call of  *)
(* the engine is a job of _thread_pool; a job needs a free worker.  The    *)
(* create, upload, start, wait and cleanup jobs end by themselves and are  *)
(* one step each; a _read_logs job keeps its worker until the log stream   *)
(* of its container ends.                                                  *)
(***************************************************************************)
\* _thread_pool = ThreadPoolExecutor(max_workers=4)
max_workers == 4

BusyWorkers == Cardinality({x \in Runs : run[x].reader = "reading"}) + pool.readers
WorkerFree == BusyWorkers < max_workers

RunDeadline(x) == MAX_EXECUTION_TIME * (IF run[x].install THEN 2 ELSE 1)

poolOther == <<engineVars, runtimeVars, bridgeVars, stopVars, pureVars, host>>

\* executions that hold a container or a reader job
ActiveCount == Cardinality(active_executions) + pool.readers

\* execute_code_stream is called and reaches the create call
RunInvoke(x) ==
    /\ run[x].pc = "idle"
    /\ \E install \in BOOLEAN :
          run' = [run EXCEPT ![x].pc = "create", ![x].install = install]
    /\ UNCHANGED <<active_executions, pool, poolOther>>

\* lines 130-151: the create job, then the registry insert
RunCreate(x) ==
    /\ run[x].pc = "create"
    /\ WorkerFree
    /\ run' = [run EXCEPT ![x].pc = "copy", ![x].container = "created"]
    /\ active_executions' = active_executions \cup {x}
    /\ UNCHANGED <<pool, poolOther>>

\* lines 153-154: the upload job; it raises on a container removed meanwhile
RunCopy(x) ==
    /\ run[x].pc = "copy"
    /\ WorkerFree
    /\ run' = [run EXCEPT ![x].pc = IF run[x].container = "created" THEN "start"
                                    ELSE "finally"]
    /\ UNCHANGED <<active_executions, pool, poolOther>>

\* lines 156-172: the start job; a container removed meanwhile does not
\* start, and the remove job follows
RunStart(x) ==
    /\ run[x].pc = "start"
    /\ WorkerFree
    /\ IF run[x].container = "created"
       THEN run' = [run EXCEPT ![x].pc = "stream_open", ![x].container = "running"]
       ELSE run' = [run EXCEPT ![x].pc = "finally"]
    /\ UNCHANGED <<active_executions, pool, poolOther>>

\* _stream_logs_async lines 325-339: the reader job is handed to the pool
\* and start_time is taken at once
RunStreamOpen(x) ==
    /\ run[x].pc = "stream_open"
    /\ run' = [run EXCEPT ![x].pc = "drain", ![x].reader = "queued", ![x].elapsed = 0]
    /\ UNCHANGED <<active_executions, pool, poolOther>>

\* a worker takes the reader job
ReaderStart(x) ==
    /\ run[x].reader = "queued"
    /\ WorkerFree
    /\ run' = [run EXCEPT ![x].reader = "reading"]
    /\ UNCHANGED <<active_executions, pool, poolOther>>

\* the log stream of a container that is no longer running ends: the
\* reader job has put the lines and the None sentinel and leaves its worker
ReaderEnd(x) ==
    /\ run[x].reader = "reading"
    /\ run[x].container \in {"exited", "stopped", "removed"}
    /\ run' = [run EXCEPT ![x].reader = "done"]
    /\ UNCHANGED <<active_executions, pool, poolOther>>

\* the program of the container ends by itself
RunExit(x) ==
    /\ run[x].container = "running"
    /\ run' = [run EXCEPT ![x].container = "exited"]
    /\ UNCHANGED <<active_executions, pool, poolOther>>

\* time passes for every draining execution; a worker that is free takes a
\* queued job at once, so no time passes while a reader job could start
PoolTick ==
    /\ \E x \in Runs : run[x].pc = "drain" /\ run[x].elapsed < RunDeadline(x)
    /\ \A x \in Runs : run[x].reader = "queued" => ~WorkerFree
    /\ run' = [x \in Runs |->
                 IF run[x].pc = "drain" /\ run[x].elapsed < RunDeadline(x)
                 THEN [run[x] EXCEPT !.elapsed = @ + TickStep]
                 ELSE run[x]]
    /\ UNCHANGED <<active_executions, pool, poolOther>>

\* lines 355-358: the drain loop takes the None sentinel before the deadline
RunDrainEof(x) ==
    /\ run[x].pc = "drain"
    /\ run[x].reader = "done"
    /\ ~DeadlineReached(run[x].elapsed, RunDeadline(x))
    /\ run' = [run EXCEPT ![x].pc = "wait", ![x].eof = TRUE]
    /\ UNCHANGED <<active_executions, pool, poolOther>>

\* a drain loop that keeps waiting at the deadline
RunTimeout_KeepsWaiting(x) ==
    /\ run[x].pc = "drain"
    /\ DeadlineReached(run[x].elapsed, RunDeadline(x))
    /\ UNCHANGED vars

\* lines 344-350 and 207-214: the deadline; container.stop is called on the
\* event loop, not through the pool
RunTimeout(x) ==
    /\ run[x].pc = "drain"
    /\ DeadlineReached(run[x].elapsed, RunDeadline(x))
    /\ run' = [run EXCEPT ![x].pc = "finally", ![x].timed_out = TRUE,
                          ![x].container = IF @ = "running" THEN "stopped" ELSE @]
    /\ UNCHANGED <<active_executions, pool, poolOther>>

\* lines 217-225: the wait job; the terminal event follows
RunWait(x) ==
    /\ run[x].pc = "wait"
    /\ WorkerFree
    /\ run' = [run EXCEPT ![x].pc = "finally"]
    /\ UNCHANGED <<active_executions, pool, poolOther>>

\* lines 279-290: the cleanup job
RunCleanup(x) ==
    /\ run[x].pc = "finally"
    /\ WorkerFree
    /\ run' = [run EXCEPT ![x].pc = "release",
                          ![x].container = IF @ = "none" THEN @ ELSE "removed"]
    /\ UNCHANGED <<active_executions, pool, poolOther>>

\* a del of the registry entry without the membership test of line 291
RunRelease_Unguarded(x) ==
    /\ run[x].pc = "release"
    /\ run' = [run EXCEPT ![x].pc = IF x \in active_executions THEN "done" ELSE "raised"]
    /\ active_executions' = active_executions \ {x}
    /\ UNCHANGED <<pool, poolOther>>

\* lines 291-297: the registry entry, if it is still there
RunRelease(x) ==
    /\ run[x].pc = "release"
    /\ run' = [run EXCEPT ![x].pc = "done"]
    /\ active_executions' = IF x \in active_executions THEN active_executions \ {x}
                            ELSE active_executions
    /\ UNCHANGED <<pool, poolOther>>

\* a stop request that clears the registry and removes every container
RunStopExecution_StopsAll(id) ==
    /\ IF id \notin active_executions
       THEN /\ pool' = [pool EXCEPT !.stopped = <<id, FALSE>>]
            /\ UNCHANGED <<run, active_executions>>
       ELSE /\ run' = [x \in Runs |->
                         IF x \in active_executions
                         THEN [run[x] EXCEPT !.container = "removed"] ELSE run[x]]
            /\ active_executions' = {}
            /\ pool' = [pool EXCEPT !.stopped = <<id, TRUE>>]
    /\ UNCHANGED poolOther

\* stop_execution lines 366-374, called from a coroutine of the event loop:
\* lookup, cleanup_container and del are one step of the loop
RunStopExecution(id) ==
    /\ IF id \notin active_executions
       THEN /\ pool' = [pool EXCEPT !.stopped = <<id, FALSE>>]
            /\ UNCHANGED <<run, active_executions>>
       ELSE /\ run' = [run EXCEPT ![id].container = "removed"]
            /\ active_executions' = active_executions \ {id}
            /\ pool' = [pool EXCEPT !.stopped = <<id, TRUE>>]
    /\ UNCHANGED poolOther

\* the reader job of a further execution takes a worker; the pool serves
\* its jobs in the order of submission, so it does not pass a queued one
OtherReaderStart ==
    /\ WorkerFree
    /\ \A x \in Runs : run[x].reader # "queued"
    /\ pool' = [pool EXCEPT !.readers = @ + 1]
    /\ UNCHANGED <<run, active_executions, poolOther>>

\* the container of a further execution has exited or was stopped at its
\* deadline: its reader job leaves the worker
OtherReaderEnd ==
    /\ pool.readers > 0
    /\ pool' = [pool EXCEPT !.readers = @ - 1]
    /\ UNCHANGED <<run, active_executions, poolOther>>

\* the jobs of a run that need a worker
RunJob(x) ==
    \/ RunCreate(x) \/ RunCopy(x) \/ RunStart(x) \/ ReaderStart(x)
    \/ RunWait(x) \/ RunCleanup(x)

\* the steps of a run on the event loop, and the end of its reader job
RunStep(x) ==
    \/ RunStreamOpen(x) \/ ReaderEnd(x) \/ RunDrainEof(x) \/ RunTimeout(x)
    \/ RunRelease(x)

PoolNext ==
    \/ \E x \in Runs : RunInvoke(x)
    \/ \E x \in Runs : RunCreate(x)
    \/ \E x \in Runs : RunCopy(x)
    \/ \E x \in Runs : RunStart(x)
    \/ \E x \in Runs : RunStreamOpen(x)
    \/ \E x \in Runs : ReaderStart(x)
    \/ \E x \in Runs : ReaderEnd(x)
    \/ \E x \in Runs : RunExit(x)
    \/ PoolTick
    \/ \E x \in Runs : RunDrainEof(x)
    \/ \E x \in Runs : RunTimeout(x)
    \/ \E x \in Runs : RunWait(x)
    \/ \E x \in Runs : RunCleanup(x)
    \/ \E x \in Runs : RunRelease(x)
    \/ OtherReaderStart
    \/ OtherReaderEnd

\* The pool hands its jobs to the workers in the order of submission, so a
\* job that finds a free worker again and again is run; the event loop runs
\* every ready step; time passes; a further execution ends like a followed
\* one does.
PoolSpec ==
    /\ Init /\ [][PoolNext]_vars
    /\ WF_vars(PoolTick) /\ WF_vars(OtherReaderEnd)
    /\ \A x \in Runs : WF_vars(RunStep(x)) /\ SF_vars(RunJob(x))

\* the same executions with stop requests
RegistryNext ==
    \/ PoolNext
    \/ \E id \in StopIds : RunStopExecution(id)

RegistrySpec == Init /\ [][RegistryNext]_vars

StartError == Ev("error", "Failed to start container")
CreateError == Ev("error", "Failed to create Docker container. Is Docker running?")
InternalError == Ev("error", "Execution error")
Has(e, ev) == \E i \in DOMAIN events[e] : events[e][i] = ev

\* C21: when start_container reports a failure the container is removed,
\* error("Failed to start container") is the only terminal event of the
\* stream, which has no complete and no stdout event, and once the stream
\* has ended the registry is without the id and the temporary directory is
\* deleted.
C21_StartFailure ==
    \A e \in Execs :
        Has(e, StartError) =>
            /\ cstate[e] = "removed"
            /\ Cardinality(Terminals(e)) = 1
            /\ events[e][Len(events[e])] = StartError
            /\ OfType(e, "complete") = {} /\ OfType(e, "stdout") = {}
            /\ StreamEnded(e) => e \notin active_executions /\ temp_dir[e] = "deleted"

C21_Witness ==
    \E e \in Execs : Has(e, StartError) /\ Consumed(e) /\ ~Canceled(e)

\* C22: when the image check, the pull or the creation of the container
\* fails, create_container returns no handle: the stream has the single
\* error event "Failed to create Docker container", the id is never in the
\* registry, nothing is started, and the temporary directory is deleted
\* once the stream has ended.
C22_CreateFailure ==
    \A e \in Execs :
        create_outcome[e] \in {"unsupported", "image_check_failed", "pull_failed",
                               "create_failed"} =>
            /\ ~container[e] /\ cstate[e] = "none"
            /\ e \notin active_executions
            /\ OfType(e, "error") # {}
            /\ \A i \in OfType(e, "error") : events[e][i] = CreateError
            /\ Cardinality(Terminals(e)) = 1
            /\ StreamEnded(e) => temp_dir[e] = "deleted"

\* C23: no exception leaves the stream of the engine; a failure inside it
\* is the error event "Execution error" and after it the stream ends with
\* the container gone, the id out of the registry and the temporary
\* directory deleted.
C23_NoExceptionEscapes ==
    \A e \in Execs :
        /\ pc[e] # "raised"
        /\ (Has(e, InternalError) /\ StreamEnded(e)) =>
              /\ cstate[e] \in {"none", "removed"}
              /\ e \notin active_executions
              /\ temp_dir[e] = "deleted"

C25_WsInstallPath ==
    \A e \in Execs :
        (/\ via[e] = "ws"
         /\ frame[e].kind = "object"
         /\ frame[e].install_packages # << >>
         /\ frame[e].language \in {"python", "nodejs"}
         /\ sent[e] # << >>) =>
            /\ sent[e][1].type = "install_start"
            /\ sent[e][1].pkg = frame[e].install_packages
            /\ \A i \in DOMAIN sent[e] : sent[e][i].type # "dependency"

\* the complete events of the classification by exit code
ByExitCode(ev) ==
    ev = SuccessComplete \/ ev = FailedComplete(ev.n)

\* C29: the drain takes the timeout path exactly when the elapsed time has
\* reached the deadline (also when it is equal to it) and no EOF was taken;
\* an EOF is taken only while the elapsed time is below the deadline, and
\* then the complete event, if any, is the one of the classification by
\* exit code.
C29_DeadlineBoundary ==
    \A e \in Execs :
        /\ timed_out[e] => elapsed[e] >= DrainTimeout(args[e]) /\ ~eof_seen[e]
        /\ eof_seen[e] =>
              /\ elapsed[e] < DrainTimeout(args[e]) /\ ~timed_out[e]
              /\ \A i \in OfType(e, "complete") : ByExitCode(events[e][i])
        /\ \A i \in OfType(e, "complete") :
              events[e][i] = TimedOutComplete => timed_out[e]

C29_Witness ==
    \E e \in Execs :
        timed_out[e] /\ elapsed[e] = DrainTimeout(args[e]) /\ Consumed(e) /\ ~InstallPath(e)

\* the timeout error event carrying n seconds
TimeoutErrorOf(n) == Event("error", "Execution timed out after", n, << >>)

\* C30 as stated: the deadline, and the number in the timeout error, is
\* MAX_EXECUTION_TIME without the install path and three times
\* MAX_EXECUTION_TIME on it.
C30_DeadlineTimesThree ==
    \A e \in Execs :
        timed_out[e] =>
            LET d == IF InstallPath(e) THEN MAX_EXECUTION_TIME * 3 ELSE MAX_EXECUTION_TIME
            IN  /\ elapsed[e] >= d
                /\ \A i \in OfType(e, "error") : events[e][i] = TimeoutErrorOf(d)

\* C30: the deadline, and the number in the timeout error, is
\* MAX_EXECUTION_TIME without the install path and twice MAX_EXECUTION_TIME
\* on it; no execution times out before its deadline.
C30_DeadlineTimesTwo ==
    \A e \in Execs :
        LET d == IF InstallPath(e) THEN MAX_EXECUTION_TIME * 2 ELSE MAX_EXECUTION_TIME
        IN  /\ pc[e] = "drain" => elapsed[e] - TickStep < d
            /\ timed_out[e] =>
                  /\ elapsed[e] >= d
                  /\ OfType(e, "error") # {}
                  /\ \A i \in OfType(e, "error") : events[e][i] = TimeoutErrorOf(d)

C30_Witness ==
    \E e \in Execs : timed_out[e] /\ InstallPath(e) /\ Consumed(e) /\ ~Canceled(e)

\* the class name by the rule of the text: the word after the first
\* "public", whitespace, "class", whitespace in the source, Main without one
FirstPublicClass(src) ==
    LET at == {i \in 1..(Len(src) - 4) :
                  /\ src[i] \in {"public", "xpublic"}
                  /\ src[i + 1] \in {" ", "\n"} /\ src[i + 2] = "class"
                  /\ src[i + 3] \in {" ", "\n"}
                  /\ src[i + 4] \in {"public", "xpublic", "class", "classy", "Foo"}}
    IN  IF at = {} THEN "Main"
        ELSE src[(CHOOSE i \in at : \A j \in at : i <= j) + 4]

\* C26: for a Java source that passes validation the main file is named
\* <classname>.java and the run command compiles that file and runs that
\* same class name, the first identifier after "public class" or Main; for
\* every other language with a container the main file is main<ext>.
C26_MainFileName ==
    (call.fn = "prepare" /\ result # << >>) =>
        LET file == result[1]
            command == result[2]
        IN  /\ (call.language = "java"
                  /\ validate_code(SourceCode(call.source), "java")[1]) =>
                  LET classname == FirstPublicClass(call.source)
                  IN  /\ file = <<classname, ".java">>
                      /\ command = << <<"sh">>, <<"-c">>,
                                      <<"javac ", "/workspace/", classname, ".java",
                                        " && java -cp /workspace ", classname>> >>
            /\ call.language = "python" => file = <<"main", ".py">>
            /\ call.language = "nodejs" => file = <<"main", ".js">>
            /\ call.language = "cpp" => file = <<"main", ".cpp">>
            /\ call.language = "ubuntu" => file = <<"main", ".txt">>

C26_Witness ==
    /\ call.fn = "prepare" /\ call.language = "java"
    /\ validate_code(SourceCode(call.source), "java")[1]
    /\ result # << >> /\ result[1] = <<"Foo", ".java">>

\* the characters of the class [A-Za-z0-9._-] among the modelled ones
AsciiNameChars == {"a", ".", "-", "_"}
Separators == {"/", "\\"}

\* C27 as stated: the written name has only characters of [A-Za-z0-9._-],
\* every other character being replaced by '_', it has no path separator,
\* and the file is written as a regular file inside the workspace.
C27_SanitizedAsciiName ==
    (call.fn = "prepare_additional_file" /\ result # << >>) =>
        /\ \A i \in DOMAIN result[1] : result[1][i] \in AsciiNameChars
        /\ result[2] = "written"

\* C27: the written name is the part of the given name after its last
\* separator with every character that is not a word character, '.' or
\* '-' replaced by '_'; it has no path separator, and the file is written
\* directly inside the workspace unless that name is "", "." or "..", for
\* which nothing is written.
C27_SanitizedName ==
    (call.fn = "prepare_additional_file" /\ result # << >>) =>
        LET name == call.filename
            safe == result[1]
            skip == Len(name) - Len(safe)
        IN  /\ skip >= 0
            /\ skip > 0 => name[skip] \in Separators
            /\ \A i \in DOMAIN safe :
                  /\ name[skip + i] \notin Separators
                  /\ safe[i] \notin Separators
                  /\ safe[i] = IF name[skip + i] \in {"a", "é", ".", "-"}
                               THEN name[skip + i] ELSE "_"
            /\ result[2] = "raises" <=> (safe = << >> \/ safe = <<".">> \/ safe = <<".", ".">>)
            /\ result[2] \in {"raises", "written"}

C27_Witness ==
    /\ call.fn = "prepare_additional_file"
    /\ call.filename = <<".", ".", "/", "é">>
    /\ result = << <<"é">>, "written">>

\* C31: once stop_execution has removed the container of a draining
\* execution, the end of the log stream is in the queue or the reader job is
\* about to put it there, whatever the elapsed time, and the engine goes on
\* to the end of its stream with the container removed, the id out of the
\* registry and the temporary directory deleted.
C31_CancelEndsDrain ==
    /\ [](\A e \in Execs :
            (cancel_drain[e] /\ pc[e] = "drain") =>
                /\ cstate[e] = "removed" /\ e \notin active_executions
                /\ queue[e] # << >> \/ reader[e] = "reading")
    /\ \A e \in Execs :
          cancel_drain[e] ~>
              (/\ StreamEnded(e)
               /\ cstate[e] = "removed"
               /\ e \notin active_executions
               /\ temp_dir[e] = "deleted")

C31_Witness ==
    \E e \in Execs :
        /\ cancel_drain[e] /\ eof_seen[e] /\ ~timed_out[e]
        /\ elapsed[e] = 0 /\ pc[e] = "done" /\ temp_dir[e] = "deleted"


RunActive(x) == run[x].pc \notin {"idle", "done", "raised"}

\* C37: with the workers of the pool held by reader jobs and more executions
\* active than the pool has workers, every execution that was invoked
\* reaches the end of its cleanup; a reader job keeps its worker only while
\* its container runs, and no container runs past the end of its drain.
C37_PoolProgress ==
    /\ [](\A x \in Runs :
            /\ run[x].reader = "reading" => run[x].container # "none"
            /\ (run[x].pc \in {"release", "done"} /\ run[x].container # "none")
                  => run[x].container = "removed")
    /\ \A x \in Runs : RunActive(x) ~> (run[x].pc = "done")

\* an execution waits for a worker while all four are held by reader jobs
\* and more than four executions are active
C37_Witness ==
    \E x \in Runs :
        /\ run[x].pc \in {"create", "copy", "start", "wait", "finally"}
        /\ ~WorkerFree
        /\ ActiveCount > max_workers


\* C38: an execution is not reported timed out while its container has
\* exited by itself and its reader job still waits in the pool for a worker.
C38_NoTimeoutWhileQueued ==
    \A x \in Runs :
        ~(run[x].timed_out /\ run[x].container = "exited" /\ run[x].reader = "queued")

\* C32: for any interleaving of stop requests with the steps of the
\* executions, no registry operation raises; the entry of an execution is put
\* once, by its create step, and taken out once, either by a stop request that
\* returns True and leaves the engine where it is, or by the engine's own
\* release; nothing else changes the registry.
C32_RegistryAtomic ==
    /\ [](\A x \in Runs :
            /\ run[x].pc # "raised"
            /\ run[x].pc = "done" => x \notin active_executions
            /\ x \in active_executions => run[x].pc \notin {"idle", "create"})
    /\ [][\A x \in Runs :
            /\ (x \in active_executions /\ x \notin active_executions') =>
                  \/ /\ pool'.stopped = <<x, TRUE>>
                     /\ run'[x] = [run[x] EXCEPT !.container = "removed"]
                  \/ /\ run[x].pc = "release" /\ run'[x].pc = "done"
                     /\ pool' = pool
            /\ (x \notin active_executions /\ x \in active_executions') =>
                  run[x].pc = "create"
            /\ (x \in active_executions <=> x \in active_executions')
                  \/ \A y \in Runs \ {x} :
                        (y \in active_executions <=> y \in active_executions')]_vars

\* a stop request took the entry of an execution whose engine is about to
\* release it, while another execution is registered
C32_Witness ==
    \E x \in Runs :
        /\ pool.stopped = <<x, TRUE>>
        /\ run[x].pc = "release"
        /\ x \notin active_executions
        /\ active_executions # {}

\* C40: a stop request for an id changes nothing of the other executions:
\* their containers, their registry entries, their engines and their reader
\* jobs stay as they are; a request for an id that is not registered changes
\* no execution at all.
C40_CancelFrame ==
    [][\A id \in StopIds :
          (pool'.stopped # pool.stopped /\ pool'.stopped \in {<<id, TRUE>>, <<id, FALSE>>}) =>
              /\ \A y \in Runs \ {id} :
                    /\ run'[y] = run[y]
                    /\ y \in active_executions <=> y \in active_executions'
              /\ pool'.readers = pool.readers
              /\ id \notin active_executions =>
                    /\ run' = run
                    /\ active_executions' = active_executions
                    /\ pool'.stopped = <<id, FALSE>>]_vars

\* one execution was stopped while the container of another one runs
C40_Witness ==
    \E x \in Runs, y \in Runs :
        /\ x # y
        /\ pool.stopped = <<x, TRUE>>
        /\ run[x].container = "removed"
        /\ y \in active_executions
        /\ run[y].container = "running"
        /\ run[y].reader = "reading"

\* C33: stopping and removing a container that is already stopped or removed
\* raises nothing: the engine's finally clause goes on to its release step
\* and a stop request returns.  A cleanup that fails returns False and is
\* never an event: no step taken while the engine is in its finally clause
\* adds an event to the stream, and neither does a stop request.
C33_CleanupSilent ==
    /\ [](\A e \in Execs :
            /\ cstate[e] = "removed" => ~cleanup_container_returns(Rt(e))
            /\ cstate[e] = "exited" => stop_container_returns(Rt(e))
            /\ pc[e] = "release" => cstate[e] = "removed")
    /\ [][\A e \in Execs :
            /\ pc[e] \in {"finally", "release"} =>
                  /\ events'[e] = events[e]
                  /\ sent'[e] = sent[e]
                  /\ pc'[e] \in {"finally", "release", "done"}
            /\ (pc[e] = "finally" /\ pc'[e] # "finally" /\ container[e]) =>
                  /\ pc'[e] = "release"
                  /\ cstate'[e] = "removed"
            /\ stop_result' # stop_result =>
                  /\ events' = events /\ sent' = sent /\ pc' = pc]_vars

\* the finally clause has cleaned up a container that a stop request had
\* removed before
C33_Witness ==
    \E e \in Execs :
        /\ pc[e] = "release"
        /\ stop_true[e] > 0
        /\ e \notin active_executions
        /\ cstate[e] = "removed"

PackagesIgnored(e) ==
    /\ Started(e)
    /\ args[e].install_packages # NoPackages
    /\ args[e].language \notin {"python", "nodejs"}

\* C34: an execution with a package list and a language other than python
\* and nodejs runs as one without a package list: its first event is the
\* status prelude (when it is not html and passes validation), it has no
\* install event, also when its program prints the text of a marker line;
\* its container gets the networking of a plain run, runs the plain command
\* with no install step, and its exit status is the one the stream is
\* classified by; its deadline is MAX_EXECUTION_TIME.
C34_PackagesIgnored ==
    \A e \in Execs :
        PackagesIgnored(e) =>
            LET s == events[e] IN
            /\ (~Html(e) /\ PassesValidation(e) /\ s # << >>) =>
                  s[1] = Ev("status", "Starting execution...")
            /\ \A i \in DOMAIN s :
                  /\ s[i].type \notin InstallTypes
                  /\ s[i] # Ev("status", "Installing packages...")
            /\ network[e] \in {"none", IF NetworkEnabled(args[e].language, FALSE)
                                       THEN "enabled" ELSE "disabled"}
            /\ cphase[e] \in {"none", "run", "exited"}
            /\ install_status[e] = -1
            /\ elapsed[e] <= MAX_EXECUTION_TIME + TickStep - 1
            /\ timed_out[e] => Has(e, TimeoutErrorOf(MAX_EXECUTION_TIME))
            /\ Has(e, SuccessComplete) => exit_status[e] = 0
            /\ \A n \in ExitCodes : Has(e, FailedComplete(n)) => exit_status[e] = n

\* a java execution with a package list printed the text of the marker line
\* as plain output and was classified by its exit status
C34_Witness ==
    \E e \in Execs :
        /\ PackagesIgnored(e) /\ Consumed(e)
        /\ args[e].language = "java"
        /\ \E i \in OfType(e, "stdout") : events[e][i].content = RUNNING_MARK
        /\ Has(e, FailedComplete(1))

\* a word that is the token class stands in the source
HasClassToken(src) == \E i \in DOMAIN src : src[i] = "class"
\* the letters "public", one space and the letters "class" stand in a row
HasPublicSpaceClass(src) ==
    \E i \in DOMAIN src :
        /\ i + 2 <= Len(src)
        /\ src[i] \in {"public", "xpublic"}
        /\ src[i + 1] = " "
        /\ src[i + 2] \in {"class", "classy"}

\* C35 as stated: a Java source passes validation exactly if it contains the
\* token class.
C35_JavaClassToken ==
    (call.fn = "validate_source" /\ result # << >>) =>
        (result[1] <=> HasClassToken(call.source))

\* C35: a Java source passes validation exactly if it contains the text
\* "public class"; a source without the token class fails, and so does one
\* with the token class and without "public class".
C35_JavaPublicClass ==
    (call.fn = "validate_source" /\ result # << >>) =>
        /\ result[1] <=> HasPublicSpaceClass(call.source)
        /\ (\A i \in DOMAIN call.source : call.source[i] \notin {"class", "classy"})
              => ~result[1]
        /\ (result[1] /\ result[2] # "Main") => HasClassToken(call.source)

\* a source with the token class and no "public class" was rejected
C35_Witness ==
    /\ call.fn = "validate_source" /\ result # << >>
    /\ call.source = <<"class", " ", "Foo">>
    /\ ~result[1] /\ result[2] = "Main"

\* the or-branch of the install script has printed its line: on the install
\* path the install command, or else the program, ended with a failure
OrBranchTaken(e) == \E i \in DOMAIN logs[e] : logs[e][i] = FAILED_MARK

\* C36: complete("Execution completed successfully") is in the stream only
\* if the user's program has run and has exited with 0; on the install path
\* it is not there when the install command failed, nor when the program
\* exited with another code after the install.
C36_SuccessMeansProgramExitZero ==
    \A e \in Execs :
        Has(e, SuccessComplete) =>
            /\ exit_status[e] = 0
            /\ InstallPath(e) => install_status[e] = 0 /\ ~OrBranchTaken(e)

MainFileOf(language) == IF language = "python" THEN "main.py" ELSE "main.cpp"

\* C39: after the workspace was written, the main source file holds the
\* submitted code and, with a stdin, input.txt holds the submitted stdin,
\* whatever the extra files are named.
C39_MainAndStdinIntact ==
    (call.fn = "materialize" /\ result # << >> /\ result[1] = "written") =>
        /\ <<MainFileOf(call.language), call.code>> \in result[2]
        /\ call.stdin # "" => <<"input.txt", call.stdin>> \in result[2]
====
